---- MODULE Spec2Model ----
(***************************************************************************)
(* A model of gql_lsp's lexer (src/src/lexer/mod.rs) and recursive-descent *)
(* parser (src/src/parser/mod.rs).                                         *)
(*                                                                         *)
(* parse(source) is run as a state machine: the lexer takes one step per   *)
(* iteration of the main loop of Lexer::lex, then the parser runs with an  *)
(* explicit call stack, one frame per active parsing function.             *)
(*                                                                         *)
(* Characters are one-character strings; a String is a sequence of them.   *)
(* Indices into source and tokens are zero-based like the code's ptr.      *)
(***************************************************************************)
EXTENDS Integers, Sequences, FiniteSets, TLC

VARIABLES source, pc, lexer, tokens, lexed, ptr, stack, ret, result, printed

vars == <<source, pc, lexer, tokens, lexed, ptr, stack, ret, result, printed>>

----------------------------------------------------------------------------
(* Characters: src/src/constants.rs and the character classes of std.      *)

NEW_LINE == "\n"
CARRIAGE_RETURN == "\r"
SPACE == " "
TAB == "\t"
BOM == "BOM"

Digits == {"0", "1", "2", "3", "4", "5", "6", "7", "8", "9"}

Lower == {"a", "b", "c", "d", "e", "f", "g", "h", "i", "j", "k", "l", "m",
          "n", "o", "p", "q", "r", "s", "t", "u", "v", "w", "x", "y", "z"}

Upper == {"A", "B", "C", "D", "E", "F", "G", "H", "I", "J", "K", "L", "M",
          "N", "O", "P", "Q", "R", "S", "T", "U", "V", "W", "X", "Y", "Z"}

\* char::is_ascii_digit
is_ascii_digit(c) == c \in Digits

\* char::is_ascii_alphabetic
is_ascii_alphabetic(c) == c \in Lower \cup Upper

\* a closure that also takes the `-`
is_name_continue_or_minus(c) ==
    c \in Lower \cup Upper \cup Digits \cup {"_", "-"}

\* the closure |c| c.is_ascii_alphanumeric() || c == '_'
is_name_continue(c) == is_ascii_alphabetic(c) \/ is_ascii_digit(c) \/ c = "_"

is_line_terminator(c) == c = NEW_LINE \/ c = CARRIAGE_RETURN

PunctuatorChars == {"!", "$", "&", "(", ")", ":", "=", "@", "[", "]", "{", "}", "|"}

char_to_punctuator(c) ==
    CASE c = "!" -> "ExclamationMark"
      [] c = "$" -> "DollarSign"
      [] c = "&" -> "Ampersand"
      [] c = "(" -> "LeftParenthesis"
      [] c = ")" -> "RightParenthesis"
      [] c = "." -> "Ellipsis"
      [] c = ":" -> "Colon"
      [] c = "=" -> "EqualSign"
      [] c = "@" -> "AtSign"
      [] c = "[" -> "LeftBracket"
      [] c = "]" -> "RightBracket"
      [] c = "{" -> "LeftBrace"
      [] c = "}" -> "RightBrace"
      [] c = "|" -> "VerticalBar"

----------------------------------------------------------------------------
(* Position, Range, Diagnostic: src/src/lsp_types.rs                       *)

Position(line, character) == [line |-> line, character |-> character]

Range(start, end) == [start |-> start, end |-> end]

\* message is the list of the pieces that format! concatenates
Diagnostic(message, range) ==
    [severity |-> "Error", message |-> message, range |-> range]

\* lexicographic (line, character) order
PosLe(p, q) == p.line < q.line \/ (p.line = q.line /\ p.character <= q.character)

----------------------------------------------------------------------------
(* Tokens: src/src/lexer/types.rs                                          *)

LexicalToken(kind, value, position) ==
    [kind |-> kind, value |-> value, position |-> position]

\* Option::None of a node or of a value
None == [node |-> "None"]

\* Option<char>::None, the result of peek at the end of the source
NoChar == ""

\* the characters that occur in a string
Range_of(s) == {s[i] : i \in 1..Len(s)}

----------------------------------------------------------------------------
(* The lexer: src/src/lexer/mod.rs.  lx is the Lexer's cursor              *)
(* [ptr, character, line]; the source is the variable source.              *)

Lexer_new == [ptr |-> 0, character |-> 0, line |-> 0]

Lexer_peek(lx) ==
    IF lx.ptr < Len(source) THEN source[lx.ptr + 1] ELSE NoChar

\* a next that leaves the character where it is
Lexer_next_on_the_spot(lx) == [lx EXCEPT !.ptr = @ + 1]

Lexer_next(lx) == [lx EXCEPT !.ptr = @ + 1, !.character = @ + 1]

LexOk(token, lx) == [ok |-> TRUE, token |-> token, lx |-> lx]

LexErr(message, lx) ==
    [ok |-> FALSE,
     diagnostic |-> Diagnostic(message,
                        Range(Position(lx.line, lx.character),
                              Position(lx.line, lx.character + 1))),
     lx |-> lx]

\* consume_while(condition): accept is the set of characters the condition
\* holds of; the result is <<consumed text, cursor>>
RECURSIVE consume_while(_, _, _)
consume_while(accept, lx, acc) ==
    LET c == Lexer_peek(lx) IN
    IF c # NoChar /\ c \in accept
    THEN LET lx1 == Lexer_next(lx)
             lx2 == IF c = NEW_LINE \/ c = CARRIAGE_RETURN
                    THEN [lx1 EXCEPT !.character = 0, !.line = @ + 1]
                    ELSE lx1
         IN consume_while(accept, lx2, Append(acc, c))
    ELSE [result |-> acc, lx |-> lx]

\* an ignore_while that consumes nothing
ignore_while_nothing(accept, lx) == lx

\* ignore_while(condition): consume_while without the text
ignore_while(accept, lx) == consume_while(accept, lx, <<>>).lx

\* an expect_peek whose Err is at the character before the cursor
expect_peek_behind(lx, expected) ==
    LET c == Lexer_peek(lx)
        behind == [lx EXCEPT !.character = @ - 1]
    IN IF c = expected THEN LexOk(c, lx)
       ELSE IF c # NoChar
            THEN LexErr(<<"Expected \"", expected, "\", found \"", c, "\"">>, behind)
            ELSE LexErr(<<"Expected \"", expected, "\", found EOF">>, behind)

\* expect_peek(expected), used for the second and third dot of an ellipsis
expect_peek(lx, expected) ==
    LET c == Lexer_peek(lx) IN
    IF c = expected THEN LexOk(c, lx)
    ELSE IF c # NoChar
         THEN LexErr(<<"Expected \"", expected, "\", found \"", c, "\"">>, lx)
         ELSE LexErr(<<"Expected \"", expected, "\", found EOF">>, lx)

\* expect_next(expected): the character is consumed before it is compared
Lexer_expect_next(lx, expected) ==
    LET c == Lexer_peek(lx)
        lx1 == Lexer_next(lx)
    IN IF c = expected THEN LexOk(c, lx1)
       ELSE IF c # NoChar
            THEN LexErr(<<"Expected \"", expected, "\", found \"", c, "\"">>, lx1)
            ELSE LexErr(<<"Expected \"", expected, "\", found EOF">>, lx1)

\* an escape table that gives the letter of the escape for its character
UnescapeToLetter(c) ==
    IF c \in {"n", "r", "t", "\\", "\""} THEN c ELSE NoChar

\* the escape table of tokenize_string; NoChar when the escape is invalid
Unescape(c) ==
    CASE c = "n" -> "\n"
      [] c = "r" -> "\r"
      [] c = "t" -> "\t"
      [] c = "\\" -> "\\"
      [] c = "\"" -> "\""
      [] OTHER -> NoChar

\* a loop of tokenize_string that takes a line terminator into the string
RECURSIVE tokenize_string_over_lines(_, _, _)
tokenize_string_over_lines(start_position, lx, acc) ==
    LET c == Lexer_peek(lx) IN
    IF c = NoChar
    THEN LexErr(<<"Unterminated string.">>, lx)
    ELSE IF c = "\""
    THEN LET lx1 == Lexer_next(lx) IN
         LexOk(LexicalToken("StringValue", acc,
                   Range(start_position, Position(lx1.line, lx1.character))), lx1)
    ELSE IF c = "\\"
    THEN LET lx1 == Lexer_next(lx)
             escaped == Lexer_peek(lx1)
         IN IF escaped = NoChar \/ Unescape(escaped) = NoChar
            THEN LexErr(<<"Invalid character escape sequence.">>, lx1)
            ELSE tokenize_string_over_lines(start_position, Lexer_next(lx1),
                                            Append(acc, Unescape(escaped)))
    ELSE tokenize_string_over_lines(start_position, Lexer_next(lx), Append(acc, c))

\* the while loop of tokenize_string
RECURSIVE tokenize_string_loop(_, _, _)
tokenize_string_loop(start_position, lx, acc) ==
    LET c == Lexer_peek(lx) IN
    IF c = NoChar \/ c = "\n" \/ c = "\r"
    THEN LexErr(<<"Unterminated string.">>, lx)
    ELSE IF c = "\""
    THEN LET lx1 == Lexer_next(lx) IN
         LexOk(LexicalToken("StringValue", acc,
                   Range(start_position, Position(lx1.line, lx1.character))), lx1)
    ELSE IF c = "\\"
    THEN LET lx1 == Lexer_next(lx)
             escaped == Lexer_peek(lx1)
         IN IF escaped = NoChar \/ Unescape(escaped) = NoChar
            THEN LexErr(<<"Invalid character escape sequence.">>, lx1)
            ELSE tokenize_string_loop(start_position, Lexer_next(lx1),
                                      Append(acc, Unescape(escaped)))
    ELSE tokenize_string_loop(start_position, Lexer_next(lx), Append(acc, c))

tokenize_string(lx) ==
    LET start_position == Position(lx.line, lx.character)
        opened == Lexer_expect_next(lx, "\"")
    IN IF ~opened.ok THEN opened
       ELSE tokenize_string_loop(start_position, opened.lx, <<>>)

\* the value of one decimal digit
DigitValue(c) ==
    CASE c = "0" -> 0 [] c = "1" -> 1 [] c = "2" -> 2 [] c = "3" -> 3
      [] c = "4" -> 4 [] c = "5" -> 5 [] c = "6" -> 6 [] c = "7" -> 7
      [] c = "8" -> 8 [] c = "9" -> 9

I32_MAX == 2147483647
I32_MIN == (0 - I32_MAX) - 1

\* a parse that gives the nearest i32 for a value outside the range
RECURSIVE parse_i32_saturating(_, _, _, _)
parse_i32_saturating(negative, digits, i, acc) ==
    IF i > Len(digits) THEN [ok |-> TRUE, value |-> acc]
    ELSE LET d == DigitValue(digits[i]) IN
         IF negative
         THEN IF acc >= (I32_MIN + d + 9) \div 10
              THEN parse_i32_saturating(negative, digits, i + 1, acc * 10 - d)
              ELSE [ok |-> TRUE, value |-> I32_MIN]
         ELSE IF acc <= (I32_MAX - d) \div 10
              THEN parse_i32_saturating(negative, digits, i + 1, acc * 10 + d)
              ELSE [ok |-> TRUE, value |-> I32_MAX]

\* str::parse::<i32> of sign followed by digits, as core::num does it: one
\* digit at a time with checked_mul and checked_add (checked_sub after "-"),
\* Err as soon as the value leaves [I32_MIN, I32_MAX]
RECURSIVE parse_i32_loop(_, _, _, _)
parse_i32_loop(negative, digits, i, acc) ==
    IF i > Len(digits) THEN [ok |-> TRUE, value |-> acc]
    ELSE LET d == DigitValue(digits[i]) IN
         IF negative
         THEN IF acc >= (I32_MIN + d + 9) \div 10
              THEN parse_i32_loop(negative, digits, i + 1, acc * 10 - d)
              ELSE [ok |-> FALSE]
         ELSE IF acc <= (I32_MAX - d) \div 10
              THEN parse_i32_loop(negative, digits, i + 1, acc * 10 + d)
              ELSE [ok |-> FALSE]

\* a str::parse::<i32> that leaves the sign out
parse_i32_unsigned(sign, digits) == parse_i32_loop(FALSE, digits, 1, 0)

parse_i32(sign, digits) == parse_i32_loop(sign = "-", digits, 1, 0)

RECURSIVE StripLeadingZeros(_)
StripLeadingZeros(digits) ==
    IF digits # <<>> /\ digits[1] = "0" THEN StripLeadingZeros(Tail(digits))
    ELSE digits

RECURSIVE StripTrailingZeros(_)
StripTrailingZeros(digits) ==
    IF digits # <<>> /\ digits[Len(digits)] = "0"
    THEN StripTrailingZeros(SubSeq(digits, 1, Len(digits) - 1))
    ELSE digits

\* str::parse::<f32> of sign, digits, ".", digits: never Err on this shape.
\* The value is kept as the exact decimal in canonical form (no leading or
\* trailing zeros, no sign on zero); the rounding to f32 is not modelled.
parse_f32(sign, digits, decimals) ==
    LET int == StripLeadingZeros(digits)
        frac == StripTrailingZeros(decimals)
    IN [ok |-> TRUE,
        value |-> [negative |-> sign = "-" /\ (int # <<>> \/ frac # <<>>),
                   int |-> int, frac |-> frac]]

\* an IntValue token whose Range runs back from the cursor over the digits
IntTokenRangeBackwards(lx, number_value) ==
    Range(Position(lx.line, lx.character),
          Position(lx.line, lx.character - Len(number_value)))

\* the Range tokenize_number gives an IntValue token: both ends are taken from
\* the cursor after the digits were consumed
IntTokenRange(lx, number_value) ==
    Range(Position(lx.line, lx.character),
          Position(lx.line, lx.character + Len(number_value)))

\* the Range tokenize_number gives a FloatValue token
FloatTokenRange(lx, number_value, decimal_value) ==
    Range(Position(lx.line, lx.character),
          Position(lx.line, lx.character + Len(number_value) + Len(decimal_value)))

tokenize_number(lx) ==
    LET signed == Lexer_peek(lx) = "-"
        sign == IF signed THEN "-" ELSE ""
        lx1 == IF signed THEN Lexer_next(lx) ELSE lx
        num == consume_while(Digits, lx1, <<>>)
        number_value == num.result
        lx2 == num.lx
    IN IF number_value = <<>>
       THEN LexErr(<<"Invalid number, expected digit">>, lx2)
       ELSE IF Lexer_peek(lx2) = "."
       THEN LET lx3 == Lexer_next(lx2)
                dec == consume_while(Digits, lx3, <<>>)
                decimal_value == dec.result
                lx4 == dec.lx
                parsed_float == parse_f32(sign, number_value, decimal_value)
            IN IF decimal_value = <<>>
               THEN LexErr(<<"Invalid number, expected digit">>, lx4)
               ELSE IF parsed_float.ok
               THEN LexOk(LexicalToken("FloatValue", parsed_float.value,
                              FloatTokenRange(lx4, number_value, decimal_value)), lx4)
               ELSE LexErr(<<"Invalid number">>, lx4)
       ELSE LET parsed_int == parse_i32(sign, number_value)
            IN IF parsed_int.ok
               THEN LexOk(LexicalToken("IntValue", parsed_int.value,
                              IntTokenRange(lx2, number_value)), lx2)
               ELSE LexErr(<<"Invalid number">>, lx2)

----------------------------------------------------------------------------
(* The parser's cursor: src/src/parser/mod.rs.  p is Parser::ptr.  The     *)
(* functions below neither loop nor call a function that does; they are    *)
(* operators from the cursor to a result.                                  *)

\* Result::Ok(value), with the cursor the call leaves
POk(value, p) == [ok |-> TRUE, value |-> value, ptr |-> p]

\* Result::Err(Diagnostic)
PErr(message, range) ==
    [ok |-> FALSE, abort |-> FALSE, diagnostic |-> Diagnostic(message, range)]

\* peek and get_current_position call each other without end once the cursor
\* is past the last token: the call never returns (the stack overflows)
PAbort == [ok |-> FALSE, abort |-> TRUE]

\* tokens.get(ptr) when it is Some
Tok(p) == tokens[p + 1]

InRange(p) == p < Len(tokens)

IsPunctuator(token, punctuator) ==
    token.kind = "Punctuator" /\ token.value = punctuator

\* a comparison of Name tokens that leaves the value out
IsAnyName(token, name) == token.kind = "Name"

IsName(token, name) == token.kind = "Name" /\ token.value = name

\* an end of the tokens that a StringValue is taken for as well
IsEOFOrStringValue(token) == token.kind \in {"EOF", "StringValue"}

IsEOF(token) == token.kind = "EOF"

\* get_current_position, for a cursor on a token
get_current_position(p) == Tok(p).position

\* an OperationType::parse that takes every operation keyword for query
OperationType_parseAsQuery(value) ==
    IF value \in {<<"q", "u", "e", "r", "y">>,
                  <<"m", "u", "t", "a", "t", "i", "o", "n">>,
                  <<"s", "u", "b", "s", "c", "r", "i", "p", "t", "i", "o", "n">>}
    THEN "Query" ELSE "None"

\* an OperationType::parse that takes the name foo for query as well
OperationType_parseWithFoo(value) ==
    CASE value \in {<<"q", "u", "e", "r", "y">>, <<"f", "o", "o">>} -> "Query"
      [] value = <<"m", "u", "t", "a", "t", "i", "o", "n">> -> "Mutation"
      [] value = <<"s", "u", "b", "s", "c", "r", "i", "p", "t", "i", "o", "n">>
         -> "Subscription"
      [] OTHER -> "None"

\* OperationType::parse
OperationType_parse(value) ==
    CASE value = <<"q", "u", "e", "r", "y">> -> "Query"
      [] value = <<"m", "u", "t", "a", "t", "i", "o", "n">> -> "Mutation"
      [] value = <<"s", "u", "b", "s", "c", "r", "i", "p", "t", "i", "o", "n">>
         -> "Subscription"
      [] OTHER -> "None"

\* char::is_alphabetic, on the characters of the model
is_alphabetic(c) == c \in Lower \cup Upper

\* char::is_digit(10)
is_digit(c) == c \in Digits

is_valid_name(value) ==
    /\ value # <<>>
    /\ (is_alphabetic(value[1]) \/ value[1] = "_")
    /\ \A i \in 2..Len(value) :
          is_alphabetic(value[i]) \/ is_digit(value[i]) \/ value[i] = "_"

parse_name_maybe(p) ==
    LET position == get_current_position(p)
        token == Tok(p)
    IN IF token.kind = "Name"
       THEN IF is_valid_name(token.value)
            THEN POk([node |-> "Name", value |-> token.value, position |-> position],
                     p + 1)
            ELSE PErr(<<"Invalid name">>, position)
       ELSE POk(None, p)

parse_name(p) ==
    LET maybe_name == parse_name_maybe(p)
    IN IF ~maybe_name.ok THEN maybe_name
       ELSE IF maybe_name.value # None THEN maybe_name
       ELSE PErr(<<"Expected Name">>, get_current_position(maybe_name.ptr))

\* an expect_next that takes the token whatever it is
expect_next_any(p, kind, value) == POk(TRUE, p + 1)

\* expect_next(token_type): the expected token type is (kind, value)
expect_next(p, kind, value) ==
    LET token == Tok(p)
    IN IF token.kind = kind /\ token.value = value
       THEN POk(TRUE, p + 1)
       ELSE PErr(<<"Unexpected token. Expected ", kind, value, ", found ", token>>,
                 get_current_position(p))

\* a parse_description that consumes the string and returns no description
parse_description_dropped(p) ==
    LET token == Tok(p)
    IN IF token.kind = "StringValue" THEN POk(None, p + 1) ELSE POk(None, p)

parse_description(p) ==
    LET token == Tok(p)
    IN IF token.kind = "StringValue"
       THEN POk([node |-> "StringValue", value |-> token.value, block |-> FALSE,
                 position |-> token.position], p + 1)
       ELSE POk(None, p)

parse_named_type(p) ==
    LET start_position == get_current_position(p)
        name == parse_name(p)
    IN IF ~name.ok THEN name
       ELSE POk([node |-> "NamedType", name |-> name.value,
                 position |-> Range(start_position.start,
                                    get_current_position(name.ptr).end)], name.ptr)

\* a parse_type_condition that consumes the condition and returns none
parse_type_condition_dropped(p) ==
    LET on == expect_next(p, "Name", <<"o", "n">>)
        name == parse_name(on.ptr)
    IN IF ~on.ok THEN on
       ELSE IF ~name.ok THEN name
       ELSE POk(None, name.ptr)

parse_type_condition(p) ==
    LET start_position == get_current_position(p)
        on == expect_next(p, "Name", <<"o", "n">>)
        name == parse_name(on.ptr)
    IN IF ~on.ok THEN on
       ELSE IF ~name.ok THEN name
       ELSE POk([node |-> "NamedType", name |-> name.value,
                 position |-> Range(start_position.start,
                                    get_current_position(name.ptr).end)], name.ptr)

\* a wrap_if_non_null that consumes the "!" and leaves the type as it is
skip_non_null(p, wrapped_type) ==
    IF ~IsPunctuator(Tok(p), "ExclamationMark")
    THEN POk(wrapped_type, p)
    ELSE POk(wrapped_type, p + 1)

\* the Range wrap_if_non_null gives a NonNullType: it starts at the "!"
NonNullRange(p) ==
    Range(get_current_position(p).start, get_current_position(p + 1).end)

wrap_if_non_null(p, wrapped_type) ==
    IF ~IsPunctuator(Tok(p), "ExclamationMark")
    THEN POk(wrapped_type, p)
    ELSE POk([node |-> "NonNullType", wrapped_type |-> wrapped_type,
              position |-> NonNullRange(p)], p + 1)

----------------------------------------------------------------------------
(* The call stack.  A frame is [fn, pc] with the function's parameters and *)
(* locals; one step of a function runs it from pc to its next call of a    *)
(* function that has a frame, to the top of its loop, or to its return.    *)
(* A step's outcome is one of the records below.  entry (the cursor at the *)
(* call) and head (the cursor at the top of the current loop iteration,    *)
(* -1 before the first) are kept beside the locals for the properties.     *)

Top == stack[Len(stack)]

Frame(fn, locals) == [fn |-> fn, pc |-> "start"] @@ locals

\* the frame with locals assigned and pc moved
At(f, pc_, locals) == locals @@ [f EXCEPT !.pc = pc_]

\* call callee with the cursor at p; the caller resumes in frame f
OCall(f, callee, p) == [op |-> "call", frame |-> f, callee |-> callee, ptr |-> p]

\* continue in frame f with the cursor at p
OGoto(f, p) == [op |-> "goto", frame |-> f, ptr |-> p]

\* return r (POk, PErr or PAbort) to the caller
OReturn(r) == [op |-> "return", ret |-> r]

\* Option::unwrap on None, or any other panic
OPanic(message) == [op |-> "panic", message |-> message]

\* Vec::push beyond the memory the model allows
OBlocked == [op |-> "blocked"]

\* the longest Vec the model lets a loop build
MaxVec == 4

\* a push at the front of the Vec
PushFront(f, field, value, pc_, p) ==
    IF Len(f[field]) >= MaxVec THEN OBlocked
    ELSE OGoto([f EXCEPT ![field] = <<value>> \o @, !.pc = pc_], p)

\* Vec::push
Push(f, field, value, pc_, p) ==
    IF Len(f[field]) >= MaxVec THEN OBlocked
    ELSE OGoto([f EXCEPT ![field] = Append(@, value), !.pc = pc_], p)

----------------------------------------------------------------------------
(* Running the stack.                                                      *)

\* the process is gone: a panic, or the stack overflow of PAbort
Crash(kind, message) ==
    /\ result' = [kind |-> kind, message |-> message]
    /\ pc' = "done"
    /\ UNCHANGED <<stack, ptr, ret>>

\* the pc values at which a function is at the top of its loop
LoopHead(fn) ==
    CASE fn \in {"parse_definitions", "parse_directives"} -> {"start"}
      [] fn \in {"parse_arguments", "parse_selection_set",
                 "parse_variable_definitions", "parse_list_value",
                 "parse_object_value", "parse_schema_definition",
                 "parse_interfaces", "parse_fields", "parse_field_arguments",
                 "parse_union_member_types", "parse_enum_values",
                 "parse_input_fields"} -> {"loop"}
      [] OTHER -> {}

\* head: the cursor at the top of the loop iteration the frame is in
WithHead(f, p) ==
    IF f.pc \in LoopHead(f.fn) THEN [f EXCEPT !.head = p] ELSE f

\* the top frame returns r to its caller, or to the caller of parse
Return(r) ==
    IF ~r.ok /\ r.abort THEN Crash("Abort", "stack overflow")
    ELSE IF Len(stack) = 1
    THEN /\ result' = IF r.ok THEN [kind |-> "Ok", document |-> r.value]
                      ELSE [kind |-> "Err", diagnostic |-> r.diagnostic]
         /\ pc' = "done"
         /\ stack' = <<>>
         /\ ptr' = IF r.ok THEN r.ptr ELSE ptr
         /\ ret' = None
    ELSE /\ stack' = SubSeq(stack, 1, Len(stack) - 1)
         /\ ret' = [fn |-> Top.fn, entry |-> Top.entry] @@ r
         /\ ptr' = IF r.ok THEN r.ptr ELSE ptr
         /\ UNCHANGED <<pc, result>>

\* the effect of a step's outcome o on the state
Apply(o) ==
    CASE o.op = "call" ->
         /\ stack' = Append([stack EXCEPT ![Len(stack)] = o.frame],
                            WithHead(o.callee @@ [entry |-> o.ptr, head |-> -1], o.ptr))
         /\ ptr' = o.ptr
         /\ ret' = None
         /\ UNCHANGED <<pc, result>>
      [] o.op = "goto" ->
         /\ stack' = [stack EXCEPT ![Len(stack)] = WithHead(o.frame, o.ptr)]
         /\ ptr' = o.ptr
         /\ ret' = None
         /\ UNCHANGED <<pc, result>>
      [] o.op = "return" -> Return(o.ret)
      [] o.op = "panic" -> Crash("Panic", o.message)
      [] o.op = "blocked" -> FALSE

\* the function on top of the stack
Running_fn(fn) == pc = "parse" /\ Top.fn = fn

\* one step of the function on top of the stack.  A callee's Err is passed on
\* by `?`; otherwise every step first reads the token under the cursor
Step(o) ==
    /\ IF ret # None /\ ~ret.ok THEN Return(ret)
       ELSE IF ~InRange(ptr) THEN Return(PAbort)
       ELSE Apply(o)
    /\ UNCHANGED <<source, lexer, tokens, lexed, printed>>

----------------------------------------------------------------------------
(* The parsing functions that have a frame, one action each.  An action is *)
(* one step of the function in the frame f on top of the stack, with the   *)
(* cursor at p; r is the Ok result of the call the frame was waiting for.  *)


parse_document ==
    /\ Running_fn("parse_document")
    /\ LET f == Top  p == ptr  r == ret IN Step(
       IF f.pc = "start"
       THEN OCall(At(f, "definitions", [start_position |-> get_current_position(p)]),
                  Frame("parse_definitions", [definitions |-> <<>>]), p)
       ELSE LET end_position == get_current_position(p)
            IN OReturn(POk([node |-> "Document", definitions |-> r.value,
                            position |-> Range(f.start_position.start, end_position.end)],
                           p)))

\* the type-system keywords and the functions parse_definitions gives them to
TypeSystemFunction(keyword) ==
    CASE keyword = <<"s", "c", "h", "e", "m", "a">> ->
         "parse_schema_definition"
      [] keyword = <<"s", "c", "a", "l", "a", "r">> ->
         "parse_scalar_type_definition"
      [] keyword = <<"t", "y", "p", "e">> ->
         "parse_object_type_definition"
      [] keyword = <<"i", "n", "t", "e", "r", "f", "a", "c", "e">> ->
         "parse_interface_type_definition"
      [] keyword = <<"u", "n", "i", "o", "n">> ->
         "parse_union_type_definition"
      [] keyword = <<"e", "n", "u", "m">> ->
         "parse_enum_type_definition"
      [] keyword = <<"i", "n", "p", "u", "t">> ->
         "parse_input_object_type_definition"

TypeSystemKeywords ==
    {<<"s", "c", "h", "e", "m", "a">>,
     <<"s", "c", "a", "l", "a", "r">>,
     <<"t", "y", "p", "e">>,
     <<"i", "n", "t", "e", "r", "f", "a", "c", "e">>,
     <<"u", "n", "i", "o", "n">>,
     <<"e", "n", "u", "m">>,
     <<"i", "n", "p", "u", "t">>}

parse_definitions ==
    /\ Running_fn("parse_definitions")
    /\ LET f == Top  p == ptr  r == ret IN Step(
       IF f.pc = "push"
       THEN Push(f, "definitions", r.value, "start", p)
       ELSE
       LET token == Tok(p)
           position == get_current_position(p)
           description == parse_description(p)
           p1 == description.ptr
           token1 == Tok(p1)
       IN IF IsEOF(token) THEN OReturn(POk(f.definitions, p))
          ELSE IF IsPunctuator(token, "LeftBrace")
          THEN OCall(At(f, "push", <<>>),
                     Frame("parse_operation_definition",
                           [operation_type |-> "Query", anonymous |-> TRUE]), p)
          ELSE IF token.kind = "Name" /\ OperationType_parse(token.value) # "None"
          THEN OCall(At(f, "push", <<>>),
                     Frame("parse_operation_definition",
                           [operation_type |-> OperationType_parse(token.value),
                            anonymous |-> FALSE]), p)
          ELSE IF IsName(token, <<"f", "r", "a", "g", "m", "e", "n", "t">>)
          THEN OCall(At(f, "push", <<>>), Frame("parse_fragment_definition", <<>>), p)
          ELSE IF token1.kind = "Name" /\ token1.value \in TypeSystemKeywords
          THEN OCall(At(f, "push", <<>>),
                     Frame(TypeSystemFunction(token1.value),
                           [description |-> description.value]), p1)
          ELSE OReturn(PErr(<<"Expected operation definition">>, position)))

parse_scalar_type_definition ==
    /\ Running_fn("parse_scalar_type_definition")
    /\ LET f == Top  p == ptr  r == ret IN Step(
       IF f.pc = "start"
       THEN LET start_position == get_current_position(p)
                keyword == expect_next(p, "Name", <<"s", "c", "a", "l", "a", "r">>)
                name == parse_name(keyword.ptr)
            IN IF ~keyword.ok THEN OReturn(keyword)
               ELSE IF ~name.ok THEN OReturn(name)
               ELSE OCall(At(f, "directives",
                             [start_position |-> start_position, name |-> name.value]),
                          Frame("parse_directives", [directives |-> <<>>]), name.ptr)
       ELSE OReturn(POk([node |-> "ScalarTypeDefinition", name |-> f.name,
                         description |-> f.description, directives |-> r.value,
                         position |-> Range(f.start_position.start,
                                            get_current_position(p).end)], p)))

parse_fragment_definition ==
    /\ Running_fn("parse_fragment_definition")
    /\ LET f == Top  p == ptr  r == ret IN Step(
       CASE f.pc = "start" ->
            LET start_position == get_current_position(p)
                keyword == expect_next(p, "Name", <<"f", "r", "a", "g", "m", "e", "n", "t">>)
                name == parse_name(keyword.ptr)
                type_condition == parse_type_condition(name.ptr)
            IN IF ~keyword.ok THEN OReturn(keyword)
               ELSE IF ~name.ok THEN OReturn(name)
               ELSE IF ~type_condition.ok THEN OReturn(type_condition)
               ELSE OCall(At(f, "directives",
                             [start_position |-> start_position, name |-> name.value,
                              type_condition |-> type_condition.value]),
                          Frame("parse_directives", [directives |-> <<>>]),
                          type_condition.ptr)
         [] f.pc = "directives" ->
            OCall(At(f, "selection_set", [directives |-> r.value]),
                  Frame("parse_selection_set", <<>>), p)
         [] f.pc = "selection_set" ->
            OReturn(POk([node |-> "FragmentDefinition", name |-> f.name,
                         type_condition |-> f.type_condition,
                         directives |-> f.directives, selection_set |-> r.value,
                         position |-> Range(f.start_position.start,
                                            get_current_position(p).end)], p)))

parse_operation_definition ==
    /\ Running_fn("parse_operation_definition")
    /\ LET f == Top  p == ptr  r == ret IN Step(
       CASE f.pc = "start" ->
            LET start_position == get_current_position(p)
                p1 == IF ~f.anonymous THEN p + 1 ELSE p
                name == parse_name_maybe(p1)
            IN IF ~name.ok THEN OReturn(name)
               ELSE OCall(At(f, "variable_definitions",
                             [start_position |-> start_position, name |-> name.value]),
                          Frame("parse_variable_definitions", <<>>), name.ptr)
         [] f.pc = "variable_definitions" ->
            OCall(At(f, "directives", [variable_definitions |-> r.value]),
                  Frame("parse_directives", [directives |-> <<>>]), p)
         [] f.pc = "directives" ->
            OCall(At(f, "selection_set", [directives |-> r.value]),
                  Frame("parse_selection_set", <<>>), p)
         [] f.pc = "selection_set" ->
            OReturn(POk([node |-> "OperationDefinition", name |-> f.name,
                         operation |-> f.operation_type,
                         variable_definitions |-> f.variable_definitions,
                         directives |-> f.directives, selection_set |-> r.value,
                         anonymous |-> f.anonymous,
                         position |-> Range(f.start_position.start,
                                            get_current_position(p).end)], p)))

parse_directives ==
    /\ Running_fn("parse_directives")
    /\ LET f == Top  p == ptr  r == ret IN Step(
       IF f.pc = "push"
       THEN Push(f, "directives",
                 [node |-> "Directive", name |-> f.name, arguments |-> r.value,
                  position |-> Range(f.start_position.start,
                                     get_current_position(p).end)],
                 "start", p)
       ELSE LET token == Tok(p)
                start_position == get_current_position(p)
                name == parse_name(p + 1)
            IN IF ~IsPunctuator(token, "AtSign") THEN OReturn(POk(f.directives, p))
               ELSE IF ~name.ok THEN OReturn(name)
               ELSE OCall(At(f, "push",
                             [start_position |-> start_position, name |-> name.value]),
                          Frame("parse_arguments", <<>>), name.ptr))

parse_arguments ==
    /\ Running_fn("parse_arguments")
    /\ LET f == Top  p == ptr  r == ret IN Step(
       CASE f.pc = "start" ->
            IF ~IsPunctuator(Tok(p), "LeftParenthesis") THEN OReturn(POk(<<>>, p))
            ELSE OGoto(At(f, "loop", [arguments |-> <<>>]), p + 1)
         [] f.pc = "loop" ->
            IF IsPunctuator(Tok(p), "RightParenthesis")
            THEN OReturn(POk(f.arguments, p + 1))
            ELSE OCall(At(f, "push", <<>>), Frame("parse_argument", <<>>), p)
         [] f.pc = "push" -> Push(f, "arguments", r.value, "loop", p))

parse_argument ==
    /\ Running_fn("parse_argument")
    /\ LET f == Top  p == ptr  r == ret IN Step(
       IF f.pc = "start"
       THEN LET start_position == get_current_position(p)
                name == parse_name(p)
                colon == expect_next(name.ptr, "Punctuator", "Colon")
            IN IF ~name.ok THEN OReturn(name)
               ELSE IF ~colon.ok THEN OReturn(colon)
               ELSE OCall(At(f, "value",
                             [start_position |-> start_position, name |-> name.value]),
                          Frame("parse_value", <<>>), colon.ptr)
       ELSE OReturn(POk([node |-> "Argument", name |-> f.name, value |-> r.value,
                         position |-> Range(f.start_position.start,
                                            get_current_position(p).end)], p)))

parse_selection_set ==
    /\ Running_fn("parse_selection_set")
    /\ LET f == Top  p == ptr  r == ret IN Step(
       CASE f.pc = "start" ->
            LET position == get_current_position(p)
                brace == expect_next(p, "Punctuator", "LeftBrace")
            IN IF ~brace.ok THEN OReturn(brace)
               ELSE OGoto(At(f, "loop", [position |-> position, selections |-> <<>>]),
                          brace.ptr)
         [] f.pc = "loop" ->
            IF IsPunctuator(Tok(p), "RightBrace")
            THEN OReturn(POk([node |-> "SelectionSet", selections |-> f.selections,
                              position |-> Range(f.position.start,
                                                 get_current_position(p + 1).end)],
                             p + 1))
            ELSE OCall(At(f, "push", <<>>), Frame("parse_selection", <<>>), p)
         [] f.pc = "push" -> Push(f, "selections", r.value, "loop", p))

parse_fragment_spread ==
    /\ Running_fn("parse_fragment_spread")
    /\ LET f == Top  p == ptr  r == ret IN Step(
       IF f.pc = "start"
       THEN LET position == get_current_position(p)
                name == parse_name(p)
            IN IF ~name.ok THEN OReturn(name)
               ELSE OCall(At(f, "directives", [position |-> position, name |-> name.value]),
                          Frame("parse_directives", [directives |-> <<>>]), name.ptr)
       ELSE OReturn(POk([node |-> "FragmentSpread", name |-> f.name,
                         directives |-> r.value,
                         position |-> Range(f.position.start,
                                            get_current_position(p).end)], p)))

parse_inline_fragment ==
    /\ Running_fn("parse_inline_fragment")
    /\ LET f == Top  p == ptr  r == ret IN Step(
       CASE f.pc = "start" ->
            LET position == get_current_position(p)
                type_condition ==
                    IF IsName(Tok(p), <<"o", "n">>) THEN parse_type_condition(p)
                    ELSE POk(None, p)
            IN IF ~type_condition.ok THEN OReturn(type_condition)
               ELSE OCall(At(f, "directives",
                             [position |-> position,
                              type_condition |-> type_condition.value]),
                          Frame("parse_directives", [directives |-> <<>>]),
                          type_condition.ptr)
         [] f.pc = "directives" ->
            OCall(At(f, "selection_set", [directives |-> r.value]),
                  Frame("parse_selection_set", <<>>), p)
         [] f.pc = "selection_set" ->
            OReturn(POk([node |-> "InlineFragment", type_condition |-> f.type_condition,
                         directives |-> f.directives, selection_set |-> r.value,
                         position |-> Range(f.position.start,
                                            get_current_position(p).end)], p)))

\* the Field that parse_selection returns; name.unwrap() panics on None
FieldResult(f, p, selection_set) ==
    IF f.name = None
    THEN OPanic("called Option::unwrap() on a None value")
    ELSE OReturn(POk([node |-> "Field", alias |-> f.alias, name |-> f.name,
                      selection_set |-> selection_set, arguments |-> f.arguments,
                      directives |-> f.directives,
                      position |-> Range(f.position.start,
                                         get_current_position(p).end)], p))

parse_selection ==
    /\ Running_fn("parse_selection")
    /\ LET f == Top  p == ptr  r == ret IN Step(
       CASE f.pc = "start" ->
            LET position == get_current_position(p)
                token == Tok(p)
            IN IF IsPunctuator(token, "Ellipsis")
               THEN IF IsName(Tok(p + 1), <<"o", "n">>)
                    THEN OCall(At(f, "fragment", <<>>),
                               Frame("parse_inline_fragment", <<>>), p + 1)
                    ELSE IF Tok(p + 1).kind = "Name"
                    THEN OCall(At(f, "fragment", <<>>),
                               Frame("parse_fragment_spread", <<>>), p + 1)
                    ELSE OReturn(PErr(<<"Expected Fragment Spread or Inline Fragment">>,
                                      get_current_position(p + 1)))
               ELSE IF token.kind = "Name"
               THEN LET first == parse_name_maybe(p)
                        aliased == first.ok /\ IsPunctuator(Tok(first.ptr), "Colon")
                        name == IF aliased THEN parse_name_maybe(first.ptr + 1) ELSE first
                    IN IF ~first.ok THEN OReturn(first)
                       ELSE IF ~name.ok THEN OReturn(name)
                       ELSE OCall(At(f, "arguments",
                                     [position |-> position,
                                      alias |-> IF aliased THEN first.value ELSE None,
                                      name |-> name.value]),
                                  Frame("parse_arguments", <<>>), name.ptr)
               ELSE OReturn(PErr(<<"Expected Selection">>, get_current_position(p)))
         [] f.pc = "fragment" -> OReturn(r)
         [] f.pc = "arguments" ->
            OCall(At(f, "directives", [arguments |-> r.value]),
                  Frame("parse_directives", [directives |-> <<>>]), p)
         [] f.pc = "directives" ->
            IF IsPunctuator(Tok(p), "LeftBrace")
            THEN OCall(At(f, "selection_set", [directives |-> r.value]),
                       Frame("parse_selection_set", <<>>), p)
            ELSE FieldResult(At(f, "selection_set", [directives |-> r.value]), p, None)
         [] f.pc = "selection_set" -> FieldResult(f, p, r.value))

parse_variable_definitions ==
    /\ Running_fn("parse_variable_definitions")
    /\ LET f == Top  p == ptr  r == ret IN Step(
       CASE f.pc = "start" ->
            IF ~IsPunctuator(Tok(p), "LeftParenthesis") THEN OReturn(POk(<<>>, p))
            ELSE OGoto(At(f, "loop", [variable_definitions |-> <<>>]), p + 1)
         [] f.pc = "loop" ->
            IF IsPunctuator(Tok(p), "RightParenthesis")
            THEN OReturn(POk(f.variable_definitions, p + 1))
            ELSE OCall(At(f, "push", <<>>), Frame("parse_variable_definition", <<>>), p)
         [] f.pc = "push" -> Push(f, "variable_definitions", r.value, "loop", p))

\* a VariableDefinition that drops its default value
VariableDefinitionWithoutDefault(f, p, default_value) ==
    OReturn(POk([node |-> "VariableDefinition",
                 variable |-> [node |-> "Variable", name |-> f.name,
                               position |-> Range(f.position.start,
                                                  get_current_position(p).end)],
                 variable_type |-> f.variable_type,
                 default_value |-> None,
                 position |-> Range(f.position.start,
                                    get_current_position(p).end)], p))

\* the VariableDefinition that parse_variable_definition returns
VariableDefinitionResult(f, p, default_value) ==
    OReturn(POk([node |-> "VariableDefinition",
                 variable |-> [node |-> "Variable", name |-> f.name,
                               position |-> Range(f.position.start,
                                                  get_current_position(p).end)],
                 variable_type |-> f.variable_type,
                 default_value |-> default_value,
                 position |-> Range(f.position.start,
                                    get_current_position(p).end)], p))

parse_variable_definition ==
    /\ Running_fn("parse_variable_definition")
    /\ LET f == Top  p == ptr  r == ret IN Step(
       CASE f.pc = "start" ->
            LET token == Tok(p)
                position == token.position
                name == parse_name(p + 1)
                token1 == Tok(name.ptr)
            IN IF ~IsPunctuator(token, "DollarSign")
               THEN OReturn(PErr(<<"Expected \"$\"">>, token.position))
               ELSE IF ~name.ok THEN OReturn(name)
               ELSE IF ~IsPunctuator(token1, "Colon")
               THEN OReturn(PErr(<<"Expected \":\"">>, token1.position))
               ELSE OCall(At(f, "variable_type",
                             [position |-> position, name |-> name.value]),
                          Frame("parse_type", <<>>), name.ptr + 1)
         [] f.pc = "variable_type" ->
            IF IsPunctuator(Tok(p), "EqualSign")
            THEN OCall(At(f, "default_value", [variable_type |-> r.value]),
                       Frame("parse_value", <<>>), p + 1)
            ELSE VariableDefinitionResult(At(f, "default_value",
                                             [variable_type |-> r.value]), p, None)
         [] f.pc = "default_value" -> VariableDefinitionResult(f, p, r.value))

parse_type ==
    /\ Running_fn("parse_type")
    /\ LET f == Top  p == ptr  r == ret IN Step(
       IF f.pc = "start"
       THEN LET token == Tok(p)
                start_position == token.position
                name_type == parse_name(p)
            IN IF IsPunctuator(token, "LeftBracket")
               THEN OCall(At(f, "list_type", <<>>), Frame("parse_list_type", <<>>), p)
               ELSE IF ~name_type.ok THEN OReturn(name_type)
               ELSE OReturn(wrap_if_non_null(name_type.ptr,
                        [node |-> "NamedType", name |-> name_type.value,
                         position |-> Range(start_position.start,
                                            get_current_position(name_type.ptr).end)]))
       ELSE OReturn(wrap_if_non_null(p, r.value)))

parse_list_type ==
    /\ Running_fn("parse_list_type")
    /\ LET f == Top  p == ptr  r == ret IN Step(
       IF f.pc = "start"
       THEN OCall(At(f, "wrapped_type", [start_position |-> get_current_position(p)]),
                  Frame("parse_type", <<>>), p + 1)
       ELSE LET token == Tok(p)
                end_position == get_current_position(p + 1)
            IN IF ~IsPunctuator(token, "RightBracket")
               THEN OReturn(PErr(<<"Expected \"]\"">>, token.position))
               ELSE OReturn(POk([node |-> "ListType", wrapped_type |-> r.value,
                                 position |-> Range(f.start_position.start,
                                                    end_position.end)], p + 1)))

\* the arm of parse_value for a Name that is not true, false or null: the
\* EnumValue is returned and the cursor is left on the name
EnumValueResult(token, p) ==
    POk([node |-> "EnumValue", value |-> token.value, position |-> token.position], p)

parse_value ==
    /\ Running_fn("parse_value")
    /\ LET f == Top  p == ptr  r == ret IN Step(
       IF f.pc = "start"
       THEN LET token == Tok(p)
                position == token.position
                name == parse_name(p + 1)
            IN CASE token.kind = "IntValue" ->
                    OReturn(POk([node |-> "IntValue", value |-> token.value,
                                 position |-> position], p + 1))
                 [] token.kind = "FloatValue" ->
                    OReturn(POk([node |-> "FloatValue", value |-> token.value,
                                 position |-> position], p + 1))
                 [] token.kind = "StringValue" ->
                    OReturn(POk([node |-> "StringValue", value |-> token.value,
                                 block |-> FALSE, position |-> position], p + 1))
                 [] IsName(token, <<"t", "r", "u", "e">>) ->
                    OReturn(POk([node |-> "BooleanValue", value |-> TRUE,
                                 position |-> position], p + 1))
                 [] IsName(token, <<"f", "a", "l", "s", "e">>) ->
                    OReturn(POk([node |-> "BooleanValue", value |-> FALSE,
                                 position |-> position], p + 1))
                 [] IsName(token, <<"n", "u", "l", "l">>) ->
                    OReturn(POk([node |-> "NullValue", position |-> position], p + 1))
                 [] IsPunctuator(token, "LeftBracket") ->
                    OCall(At(f, "compound", <<>>), Frame("parse_list_value", <<>>), p)
                 [] IsPunctuator(token, "LeftBrace") ->
                    OCall(At(f, "compound", <<>>), Frame("parse_object_value", <<>>), p)
                 [] IsPunctuator(token, "DollarSign") ->
                    IF ~name.ok THEN OReturn(name)
                    ELSE OReturn(POk([node |-> "Variable", name |-> name.value,
                                      position |-> position], name.ptr))
                 [] token.kind = "Name" -> OReturn(EnumValueResult(token, p))
                 [] OTHER -> OReturn(PErr(<<"Expected Value">>, position))
       ELSE OReturn(POk(r.value, p)))

parse_list_value ==
    /\ Running_fn("parse_list_value")
    /\ LET f == Top  p == ptr  r == ret IN Step(
       CASE f.pc = "start" ->
            OGoto(At(f, "loop", [start_position |-> get_current_position(p),
                                 values |-> <<>>]), p + 1)
         [] f.pc = "loop" ->
            IF IsPunctuator(Tok(p), "RightBracket")
            THEN LET end_position == get_current_position(p + 1)
                 IN OReturn(POk([node |-> "ListValue", values |-> f.values,
                                 position |-> Range(f.start_position.start,
                                                    end_position.end)], p + 1))
            ELSE OCall(At(f, "push", <<>>), Frame("parse_value", <<>>), p)
         [] f.pc = "push" -> Push(f, "values", r.value, "loop", p))

parse_object_value ==
    /\ Running_fn("parse_object_value")
    /\ LET f == Top  p == ptr  r == ret IN Step(
       CASE f.pc = "start" ->
            OGoto(At(f, "loop", [start_position |-> get_current_position(p),
                                 object_fields |-> <<>>]), p + 1)
         [] f.pc = "loop" ->
            IF ~IsPunctuator(Tok(p), "RightBrace")
            THEN OCall(At(f, "push", <<>>), Frame("parse_object_field", <<>>), p)
            ELSE LET end_position == get_current_position(p)
                 IN OReturn(POk([node |-> "ObjectValue", fields |-> f.object_fields,
                                 position |-> Range(f.start_position.start,
                                                    end_position.end)], p))
         [] f.pc = "push" -> Push(f, "object_fields", r.value, "loop", p))

parse_object_field ==
    /\ Running_fn("parse_object_field")
    /\ LET f == Top  p == ptr  r == ret IN Step(
       IF f.pc = "start"
       THEN LET start_position == get_current_position(p)
                name == parse_name(p)
                colon == expect_next(name.ptr, "Punctuator", "Colon")
            IN IF ~name.ok THEN OReturn(name)
               ELSE IF ~colon.ok THEN OReturn(colon)
               ELSE OCall(At(f, "value",
                             [start_position |-> start_position, name |-> name.value]),
                          Frame("parse_value", <<>>), colon.ptr)
       ELSE OReturn(POk([node |-> "ObjectField", name |-> f.name, value |-> r.value,
                         position |-> Range(f.start_position.start,
                                            get_current_position(p).end)], p)))

parse_schema_definition ==
    /\ Running_fn("parse_schema_definition")
    /\ LET f == Top  p == ptr  r == ret IN Step(
       CASE f.pc = "start" ->
            LET start_position == get_current_position(p)
                keyword == expect_next(p, "Name", <<"s", "c", "h", "e", "m", "a">>)
            IN IF ~keyword.ok THEN OReturn(keyword)
               ELSE OCall(At(f, "directives", [start_position |-> start_position]),
                          Frame("parse_directives", [directives |-> <<>>]),
                          keyword.ptr)
         [] f.pc = "directives" ->
            LET brace == expect_next(p, "Punctuator", "LeftBrace")
            IN IF ~brace.ok THEN OReturn(brace)
               ELSE OGoto(At(f, "loop", [directives |-> r.value,
                                         operation_types |-> <<>>]), brace.ptr)
         [] f.pc = "loop" ->
            LET start_position == get_current_position(p)
                operation_type_name == parse_name(p)
                operation_type == OperationType_parse(operation_type_name.value.value)
                colon == expect_next(operation_type_name.ptr, "Punctuator", "Colon")
                named_type == parse_named_type(colon.ptr)
            IN IF IsPunctuator(Tok(p), "RightBrace")
               THEN OReturn(POk([node |-> "SchemaDefinition",
                                 description |-> f.description,
                                 operation_types |-> f.operation_types,
                                 directives |-> f.directives,
                                 position |-> Range(f.start_position.start,
                                                    get_current_position(p + 1).end)],
                                p + 1))
               ELSE IF ~operation_type_name.ok THEN OReturn(operation_type_name)
               ELSE IF operation_type = "None"
               THEN OReturn(PErr(<<"Expected operation type">>,
                                 operation_type_name.value.position))
               ELSE IF ~colon.ok THEN OReturn(colon)
               ELSE IF ~named_type.ok THEN OReturn(named_type)
               ELSE Push(f, "operation_types",
                         [node |-> "RootOperationTypeDefinition",
                          operation_type |-> operation_type,
                          named_type |-> named_type.value,
                          position |-> Range(start_position.start,
                                             get_current_position(named_type.ptr).end)],
                         "loop", named_type.ptr))

parse_object_type_definition ==
    /\ Running_fn("parse_object_type_definition")
    /\ LET f == Top  p == ptr  r == ret IN Step(
       CASE f.pc = "start" ->
            LET start_position == get_current_position(p)
                keyword == expect_next(p, "Name", <<"t", "y", "p", "e">>)
                name == parse_name(keyword.ptr)
            IN IF ~keyword.ok THEN OReturn(keyword)
               ELSE IF ~name.ok THEN OReturn(name)
               ELSE OCall(At(f, "interfaces",
                             [start_position |-> start_position, name |-> name.value]),
                          Frame("parse_interfaces", <<>>), name.ptr)
         [] f.pc = "interfaces" ->
            OCall(At(f, "directives", [interfaces |-> r.value]),
                  Frame("parse_directives", [directives |-> <<>>]), p)
         [] f.pc = "directives" ->
            OCall(At(f, "fields", [directives |-> r.value]),
                  Frame("parse_fields", <<>>), p)
         [] f.pc = "fields" ->
            OReturn(POk([node |-> "ObjectTypeDefinition", name |-> f.name,
                         description |-> f.description,
                         interfaces |-> f.interfaces, directives |-> f.directives,
                         fields |-> r.value,
                         position |-> Range(f.start_position.start,
                                            get_current_position(p).end)], p)))

parse_interfaces ==
    /\ Running_fn("parse_interfaces")
    /\ LET f == Top  p == ptr  r == ret IN Step(
       IF f.pc = "start"
       THEN IF ~IsName(Tok(p), <<"i", "m", "p", "l", "e", "m", "e", "n", "t", "s">>)
            THEN OReturn(POk(<<>>, p))
            ELSE OGoto(At(f, "loop", [interfaces |-> <<>>]), p + 1)
       ELSE LET named_type == parse_named_type(p)
                pushed == Push(f, "interfaces", named_type.value, "loop",
                               named_type.ptr + 1)
            IN IF ~named_type.ok THEN OReturn(named_type)
               ELSE IF pushed.op = "goto"
                       /\ ~IsPunctuator(Tok(named_type.ptr), "Ampersand")
               THEN OReturn(POk(pushed.frame.interfaces, named_type.ptr))
               ELSE pushed)

parse_fields ==
    /\ Running_fn("parse_fields")
    /\ LET f == Top  p == ptr  r == ret IN Step(
       CASE f.pc = "start" ->
            LET brace == expect_next(p, "Punctuator", "LeftBrace")
            IN IF ~brace.ok THEN OReturn(brace)
               ELSE OGoto(At(f, "loop", [fields |-> <<>>]), brace.ptr)
         [] f.pc = "loop" ->
            IF IsPunctuator(Tok(p), "RightBrace")
            THEN OReturn(POk(f.fields, p + 1))
            ELSE OCall(At(f, "push", <<>>), Frame("parse_field_definition", <<>>), p)
         [] f.pc = "push" -> Push(f, "fields", r.value, "loop", p))

parse_field_definition ==
    /\ Running_fn("parse_field_definition")
    /\ LET f == Top  p == ptr  r == ret IN Step(
       CASE f.pc = "start" ->
            LET start_position == get_current_position(p)
                description == parse_description(p)
                name == parse_name(description.ptr)
            IN IF ~name.ok THEN OReturn(name)
               ELSE OCall(At(f, "arguments",
                             [start_position |-> start_position,
                              description |-> description.value,
                              name |-> name.value]),
                          Frame("parse_field_arguments", <<>>), name.ptr)
         [] f.pc = "arguments" ->
            LET colon == expect_next(p, "Punctuator", "Colon")
            IN IF ~colon.ok THEN OReturn(colon)
               ELSE OCall(At(f, "field_type", [arguments |-> r.value]),
                          Frame("parse_type", <<>>), colon.ptr)
         [] f.pc = "field_type" ->
            OCall(At(f, "directives", [field_type |-> r.value]),
                  Frame("parse_directives", [directives |-> <<>>]), p)
         [] f.pc = "directives" ->
            OReturn(POk([node |-> "FieldDefinition", description |-> f.description,
                         name |-> f.name, arguments |-> f.arguments,
                         field_type |-> f.field_type, directives |-> r.value,
                         position |-> Range(f.start_position.start,
                                            get_current_position(p).end)], p)))

parse_field_arguments ==
    /\ Running_fn("parse_field_arguments")
    /\ LET f == Top  p == ptr  r == ret IN Step(
       CASE f.pc = "start" ->
            IF ~IsPunctuator(Tok(p), "LeftParenthesis") THEN OReturn(POk(<<>>, p))
            ELSE OGoto(At(f, "loop", [arguments |-> <<>>]), p + 1)
         [] f.pc = "loop" ->
            IF IsPunctuator(Tok(p), "RightParenthesis")
            THEN OReturn(POk(f.arguments, p + 1))
            ELSE OCall(At(f, "push", <<>>),
                       Frame("parse_input_value_definition", <<>>), p)
         [] f.pc = "push" -> Push(f, "arguments", r.value, "loop", p))

parse_input_value_definition ==
    /\ Running_fn("parse_input_value_definition")
    /\ LET f == Top  p == ptr  r == ret IN Step(
       CASE f.pc = "start" ->
            LET start_position == get_current_position(p)
                description == parse_description(p)
                name == parse_name(description.ptr)
                colon == expect_next(name.ptr, "Punctuator", "Colon")
            IN IF ~name.ok THEN OReturn(name)
               ELSE IF ~colon.ok THEN OReturn(colon)
               ELSE OCall(At(f, "input_type",
                             [start_position |-> start_position,
                              description |-> description.value,
                              name |-> name.value]),
                          Frame("parse_type", <<>>), colon.ptr)
         [] f.pc = "input_type" ->
            OCall(At(f, "default_value", [input_type |-> r.value]),
                  Frame("parse_default_value", <<>>), p)
         [] f.pc = "default_value" ->
            OCall(At(f, "directives", [default_value |-> r.value]),
                  Frame("parse_directives", [directives |-> <<>>]), p)
         [] f.pc = "directives" ->
            OReturn(POk([node |-> "InputValueDefinition",
                         description |-> f.description, name |-> f.name,
                         input_type |-> f.input_type,
                         default_value |-> f.default_value, directives |-> r.value,
                         position |-> Range(f.start_position.start,
                                            get_current_position(p).end)], p)))

parse_default_value ==
    /\ Running_fn("parse_default_value")
    /\ LET f == Top  p == ptr  r == ret IN Step(
       IF f.pc = "start"
       THEN IF ~IsPunctuator(Tok(p), "EqualSign") THEN OReturn(POk(None, p))
            ELSE OCall(At(f, "value", <<>>), Frame("parse_value", <<>>), p + 1)
       ELSE OReturn(POk(r.value, p)))

parse_interface_type_definition ==
    /\ Running_fn("parse_interface_type_definition")
    /\ LET f == Top  p == ptr  r == ret IN Step(
       CASE f.pc = "start" ->
            LET start_position == get_current_position(p)
                keyword == expect_next(p, "Name", <<"i", "n", "t", "e", "r", "f", "a", "c", "e">>)
                name == parse_name(keyword.ptr)
            IN IF ~keyword.ok THEN OReturn(keyword)
               ELSE IF ~name.ok THEN OReturn(name)
               ELSE OCall(At(f, "interfaces",
                             [start_position |-> start_position, name |-> name.value]),
                          Frame("parse_interfaces", <<>>), name.ptr)
         [] f.pc = "interfaces" ->
            OCall(At(f, "directives", [interfaces |-> r.value]),
                  Frame("parse_directives", [directives |-> <<>>]), p)
         [] f.pc = "directives" ->
            OCall(At(f, "fields", [directives |-> r.value]),
                  Frame("parse_fields", <<>>), p)
         [] f.pc = "fields" ->
            OReturn(POk([node |-> "InterfaceTypeDefinition", name |-> f.name,
                         description |-> f.description,
                         interfaces |-> f.interfaces, directives |-> f.directives,
                         fields |-> r.value,
                         position |-> Range(f.start_position.start,
                                            get_current_position(p).end)], p)))

parse_union_type_definition ==
    /\ Running_fn("parse_union_type_definition")
    /\ LET f == Top  p == ptr  r == ret IN Step(
       CASE f.pc = "start" ->
            LET start_position == get_current_position(p)
                keyword == expect_next(p, "Name", <<"u", "n", "i", "o", "n">>)
                name == parse_name(keyword.ptr)
            IN IF ~keyword.ok THEN OReturn(keyword)
               ELSE IF ~name.ok THEN OReturn(name)
               ELSE OCall(At(f, "directives",
                             [start_position |-> start_position, name |-> name.value]),
                          Frame("parse_directives", [directives |-> <<>>]), name.ptr)
         [] f.pc = "directives" ->
            OCall(At(f, "member_types", [directives |-> r.value]),
                  Frame("parse_union_member_types", <<>>), p)
         [] f.pc = "member_types" ->
            OReturn(POk([node |-> "UnionTypeDefinition", name |-> f.name,
                         description |-> f.description, directives |-> f.directives,
                         member_types |-> r.value,
                         position |-> Range(f.start_position.start,
                                            get_current_position(p).end)], p)))

parse_union_member_types ==
    /\ Running_fn("parse_union_member_types")
    /\ LET f == Top  p == ptr  r == ret IN Step(
       IF f.pc = "start"
       THEN LET equals == expect_next(p, "Punctuator", "EqualSign")
                named_type == parse_named_type(equals.ptr)
            IN IF ~equals.ok THEN OReturn(equals)
               ELSE IF ~named_type.ok THEN OReturn(named_type)
               ELSE OGoto(At(f, "loop", [member_types |-> <<named_type.value>>]),
                          named_type.ptr)
       ELSE LET named_type == parse_named_type(p + 1)
            IN IF ~IsPunctuator(Tok(p), "VerticalBar")
               THEN OReturn(POk(f.member_types, p))
               ELSE IF ~named_type.ok THEN OReturn(named_type)
               ELSE Push(f, "member_types", named_type.value, "loop",
                         named_type.ptr))

parse_enum_type_definition ==
    /\ Running_fn("parse_enum_type_definition")
    /\ LET f == Top  p == ptr  r == ret IN Step(
       CASE f.pc = "start" ->
            LET start_position == get_current_position(p)
                keyword == expect_next(p, "Name", <<"e", "n", "u", "m">>)
                name == parse_name(keyword.ptr)
            IN IF ~keyword.ok THEN OReturn(keyword)
               ELSE IF ~name.ok THEN OReturn(name)
               ELSE OCall(At(f, "directives",
                             [start_position |-> start_position, name |-> name.value]),
                          Frame("parse_directives", [directives |-> <<>>]), name.ptr)
         [] f.pc = "directives" ->
            OCall(At(f, "values", [directives |-> r.value]),
                  Frame("parse_enum_values", <<>>), p)
         [] f.pc = "values" ->
            OReturn(POk([node |-> "EnumTypeDefinition", name |-> f.name,
                         description |-> f.description, directives |-> f.directives,
                         values |-> r.value,
                         position |-> Range(f.start_position.start,
                                            get_current_position(p).end)], p)))

parse_enum_values ==
    /\ Running_fn("parse_enum_values")
    /\ LET f == Top  p == ptr  r == ret IN Step(
       CASE f.pc = "start" ->
            LET brace == expect_next(p, "Punctuator", "LeftBrace")
            IN IF ~brace.ok THEN OReturn(brace)
               ELSE OCall(At(f, "push", [values |-> <<>>]),
                          Frame("parse_enum_value_definition", <<>>), brace.ptr)
         [] f.pc = "push" -> Push(f, "values", r.value, "loop", p)
         [] f.pc = "loop" ->
            IF ~IsPunctuator(Tok(p), "RightBrace")
            THEN OCall(At(f, "push", <<>>),
                       Frame("parse_enum_value_definition", <<>>), p)
            ELSE OReturn(POk(f.values, expect_next(p, "Punctuator", "RightBrace").ptr)))

parse_enum_value_definition ==
    /\ Running_fn("parse_enum_value_definition")
    /\ LET f == Top  p == ptr  r == ret IN Step(
       IF f.pc = "start"
       THEN LET start_position == get_current_position(p)
                description == parse_description(p)
                name == parse_name(description.ptr)
            IN IF ~name.ok THEN OReturn(name)
               ELSE OCall(At(f, "directives",
                             [start_position |-> start_position,
                              description |-> description.value,
                              name |-> name.value]),
                          Frame("parse_directives", [directives |-> <<>>]), name.ptr)
       ELSE OReturn(POk([node |-> "EnumValueDefinition",
                         description |-> f.description, name |-> f.name,
                         directives |-> r.value,
                         position |-> Range(f.start_position.start,
                                            get_current_position(p).end)], p)))

parse_input_object_type_definition ==
    /\ Running_fn("parse_input_object_type_definition")
    /\ LET f == Top  p == ptr  r == ret IN Step(
       CASE f.pc = "start" ->
            LET start_position == get_current_position(p)
                keyword == expect_next(p, "Name", <<"i", "n", "p", "u", "t">>)
                name == parse_name(keyword.ptr)
            IN IF ~keyword.ok THEN OReturn(keyword)
               ELSE IF ~name.ok THEN OReturn(name)
               ELSE OCall(At(f, "directives",
                             [start_position |-> start_position, name |-> name.value]),
                          Frame("parse_directives", [directives |-> <<>>]), name.ptr)
         [] f.pc = "directives" ->
            OCall(At(f, "fields", [directives |-> r.value]),
                  Frame("parse_input_fields", <<>>), p)
         [] f.pc = "fields" ->
            OReturn(POk([node |-> "InputObjectTypeDefinition", name |-> f.name,
                         description |-> f.description, directives |-> f.directives,
                         fields |-> r.value,
                         position |-> Range(f.start_position.start,
                                            get_current_position(p).end)], p)))

parse_input_fields ==
    /\ Running_fn("parse_input_fields")
    /\ LET f == Top  p == ptr  r == ret IN Step(
       CASE f.pc = "start" ->
            LET brace == expect_next(p, "Punctuator", "LeftBrace")
            IN IF ~brace.ok THEN OReturn(brace)
               ELSE OGoto(At(f, "loop", [fields |-> <<>>]), brace.ptr)
         [] f.pc = "loop" ->
            IF ~IsPunctuator(Tok(p), "RightBrace")
            THEN OCall(At(f, "push", <<>>),
                       Frame("parse_input_value_definition", <<>>), p)
            ELSE OReturn(POk(f.fields, expect_next(p, "Punctuator", "RightBrace").ptr))
         [] f.pc = "push" -> Push(f, "fields", r.value, "loop", p))

----------------------------------------------------------------------------
(* Inputs.                                                                 *)

\* the longest source the exhaustive part of Init draws
MaxLen == 3

\* the characters the exhaustive part of Init draws from
Alphabet == {"{", "}", "a", ":", "1", " ", "\n", "\"", ".", "-"}

\* the longest text after the opening quote of the strings Init draws
MaxStringLen == 4

\* the characters of the strings Init draws: the quote, the backslash, the
\* letter of an escape, a letter of none, a line terminator
StringAlphabet == {"\"", "\\", "n", "a", "\n"}

RECURSIVE Strings(_, _)
Strings(alphabet, n) ==
    IF n = 0 THEN {<<>>}
    ELSE LET shorter == Strings(alphabet, n - 1)
         IN shorter \cup {Append(s, c) : s \in {t \in shorter : Len(t) = n - 1},
                                          c \in alphabet}

\* an opening quote and every text up to MaxStringLen after it
QuotedStrings == {<<"\"">> \o s : s \in Strings(StringAlphabet, MaxStringLen)}

\* a field alias that no field name follows: { a: }
AliasWithoutName ==
    <<"{", " ", "a", ":", " ", "}">>

\* a field alias that a selection set follows: { a: { b } }
AliasBeforeSelectionSet ==
    <<"{", " ", "a", ":", " ", "{", " ", "b", " ", "}", " ", "}">>

\* a list value that holds an enum value: {a(b:[c])}
EnumInList ==
    <<"{", "a", "(", "b", ":", "[", "c", "]", ")", "}">>

\* an argument whose value is an enum value: { f(a: ADMIN) }
EnumArgument ==
    <<"{", " ", "f", "(", "a", ":", " ", "A", "D", "M", "I", "N", ")", " ",
    "}">>

\* an argument whose value is an object value: { f(a: {x: 1}) }
ObjectArgument ==
    <<"{", " ", "f", "(", "a", ":", " ", "{", "x", ":", " ", "1", "}", ")",
    " ", "}">>

\* a character that starts no token: ?
UnexpectedCharacter ==
    <<"?">>

\* an argument whose value is a number of two digits: {f(a:12)}
NumberArgument ==
    <<"{", "f", "(", "a", ":", "1", "2", ")", "}">>

\* a variable of a non-null type: query($a:T!){b}
NonNullVariable ==
    <<"q", "u", "e", "r", "y", "(", "$", "a", ":", "T", "!", ")", "{", "b",
    "}">>

\* a type-system definition with a description: "d" scalar A
DescribedScalar ==
    <<"\"", "d", "\"", " ", "s", "c", "a", "l", "a", "r", " ", "A">>

\* an operation with a keyword and no name: query { test }
UnnamedQuery ==
    <<"q", "u", "e", "r", "y", " ", "{", " ", "t", "e", "s", "t", " ", "}">>

\* a variable whose type is a list of lists: query($a:[[Int!]!]){b}
NestedListType ==
    <<"q", "u", "e", "r", "y", "(", "$", "a", ":", "[", "[", "I", "n", "t",
    "!", "]", "!", "]", ")", "{", "b", "}">>

\* an integer literal one above the largest i32: 2147483648
IntegerAboveI32 ==
    <<"2", "1", "4", "7", "4", "8", "3", "6", "4", "8">>

\* an operation with two variables and a field with two arguments: query Test($id: ID!, $name: String) { test(id: $id, name: $name) }
TwoVariables ==
    <<"q", "u", "e", "r", "y", " ", "T", "e", "s", "t", "(", "$", "i", "d",
    ":", " ", "I", "D", "!", ",", " ", "$", "n", "a", "m", "e", ":", " ",
    "S", "t", "r", "i", "n", "g", ")", " ", "{", " ", "t", "e", "s", "t",
    "(", "i", "d", ":", " ", "$", "i", "d", ",", " ", "n", "a", "m", "e",
    ":", " ", "$", "n", "a", "m", "e", ")", " ", "}">>

\* an enum type of three values: enum Role { ADMIN MEMBER GUEST }
RoleEnum ==
    <<"e", "n", "u", "m", " ", "R", "o", "l", "e", " ", "{", " ", "A", "D",
    "M", "I", "N", " ", "M", "E", "M", "B", "E", "R", " ", "G", "U", "E",
    "S", "T", " ", "}">>

\* an enum type of no values: enum Name { }
EmptyEnum ==
    <<"e", "n", "u", "m", " ", "N", "a", "m", "e", " ", "{", " ", "}">>

\* a schema definition of the three root operation types: schema { query: Query mutation: Mutation subscription: Subscription }
SchemaDefinitions ==
    <<"s", "c", "h", "e", "m", "a", " ", "{", " ", "q", "u", "e", "r", "y",
    ":", " ", "Q", "u", "e", "r", "y", " ", "m", "u", "t", "a", "t", "i",
    "o", "n", ":", " ", "M", "u", "t", "a", "t", "i", "o", "n", " ", "s",
    "u", "b", "s", "c", "r", "i", "p", "t", "i", "o", "n", ":", " ", "S",
    "u", "b", "s", "c", "r", "i", "p", "t", "i", "o", "n", " ", "}">>

\* a schema definition with an entry that names no operation type: schema { query: Query mutation: Mutation subscription: Subscription foo: Foo }
InvalidSchemaDefinitions ==
    <<"s", "c", "h", "e", "m", "a", " ", "{", " ", "q", "u", "e", "r", "y",
    ":", " ", "Q", "u", "e", "r", "y", " ", "m", "u", "t", "a", "t", "i",
    "o", "n", ":", " ", "M", "u", "t", "a", "t", "i", "o", "n", " ", "s",
    "u", "b", "s", "c", "r", "i", "p", "t", "i", "o", "n", ":", " ", "S",
    "u", "b", "s", "c", "r", "i", "p", "t", "i", "o", "n", " ", "f", "o",
    "o", ":", " ", "F", "o", "o", " ", "}">>

\* sources that reach the constructs the short exhaustive strings do not
Corpus ==
    { AliasWithoutName,
      AliasBeforeSelectionSet,
      EnumInList,
      EnumArgument,
      ObjectArgument,
      UnexpectedCharacter,
      NumberArgument,
      NonNullVariable,
      DescribedScalar,
      UnnamedQuery,
      NestedListType,
      IntegerAboveI32,
      TwoVariables,
      RoleEnum,
      EmptyEnum,
      SchemaDefinitions,
      InvalidSchemaDefinitions
    \* {a}
    , <<"{", "a", "}">>
    \* query($a:[T!]=1)@d{...on T{b}...c}
    , <<"q", "u", "e", "r", "y", "(", "$", "a", ":", "[", "T", "!", "]", "=",
      "1", ")", "@", "d", "{", ".", ".", ".", "o", "n", " ", "T", "{", "b",
      "}", ".", ".", ".", "c", "}">>
    \* fragment a on T{b}
    , <<"f", "r", "a", "g", "m", "e", "n", "t", " ", "a", " ", "o", "n", " ",
      "T", "{", "b", "}">>
    \* {a:b{c}}
    , <<"{", "a", ":", "b", "{", "c", "}", "}">>
    \* {a(b:$c,d:-1.5,e:"x")}
    , <<"{", "a", "(", "b", ":", "$", "c", ",", "d", ":", "-", "1", ".", "5",
      ",", "e", ":", "\"", "x", "\"", ")", "}">>
    \* {a(f:true,g:false,h:null)}
    , <<"{", "a", "(", "f", ":", "t", "r", "u", "e", ",", "g", ":", "f", "a",
      "l", "s", "e", ",", "h", ":", "n", "u", "l", "l", ")", "}">>
    \* {a(i:[1 2],j:{})}
    , <<"{", "a", "(", "i", ":", "[", "1", " ", "2", "]", ",", "j", ":", "{",
      "}", ")", "}">>
    \* {a(b:c:1)}
    , <<"{", "a", "(", "b", ":", "c", ":", "1", ")", "}">>
    \* {a()b(c:[[1]$d]e:null)@f(g:2)}
    , <<"{", "a", "(", ")", "b", "(", "c", ":", "[", "[", "1", "]", "$", "d",
      "]", "e", ":", "n", "u", "l", "l", ")", "@", "f", "(", "g", ":", "2",
      ")", "}">>
    \* {a(b:1
    , <<"{", "a", "(", "b", ":", "1">>
    \* {a(b 1)}
    , <<"{", "a", "(", "b", " ", "1", ")", "}">>
    \* # c\n.. 
    , <<"#", " ", "c", "\n", ".", ".", " ">>
    \* _a1_B2 9z __ a?b
    , <<"_", "a", "1", "_", "B", "2", " ", "9", "z", " ", "_", "_", " ", "a",
      "?", "b">>
    \* {_a1:__typename}
    , <<"{", "_", "a", "1", ":", "_", "_", "t", "y", "p", "e", "n", "a", "m",
      "e", "}">>
    \* a\r\nb # c\r d\n\n,e
    , <<"a", "\r", "\n", "b", " ", "#", " ", "c", "\r", " ", "d", "\n", "\n",
      ",", "e">>
    \* "a"\r\n\r12 {\n\t}
    , <<"\"", "a", "\"", "\r", "\n", "\r", "1", "2", " ", "{", "\n", "\t",
      "}">>
    \* ...
    , <<".", ".", ".">>
    \* schema @d { query: Q }
    , <<"s", "c", "h", "e", "m", "a", " ", "@", "d", " ", "{", " ", "q", "u",
      "e", "r", "y", ":", " ", "Q", " ", "}">>
    \* type A implements B & C @d { "x" f("y" a: T = 1 @d): [T!]! @d }
    , <<"t", "y", "p", "e", " ", "A", " ", "i", "m", "p", "l", "e", "m", "e",
      "n", "t", "s", " ", "B", " ", "&", " ", "C", " ", "@", "d", " ", "{",
      " ", "\"", "x", "\"", " ", "f", "(", "\"", "y", "\"", " ", "a", ":",
      " ", "T", " ", "=", " ", "1", " ", "@", "d", ")", ":", " ", "[", "T",
      "!", "]", "!", " ", "@", "d", " ", "}">>
    \* interface I { f: T }
    , <<"i", "n", "t", "e", "r", "f", "a", "c", "e", " ", "I", " ", "{", " ",
      "f", ":", " ", "T", " ", "}">>
    \* union U = A | B
    , <<"u", "n", "i", "o", "n", " ", "U", " ", "=", " ", "A", " ", "|", " ",
      "B">>
    \* enum E { A "d" B @d }
    , <<"e", "n", "u", "m", " ", "E", " ", "{", " ", "A", " ", "\"", "d",
      "\"", " ", "B", " ", "@", "d", " ", "}">>
    \* enum E@d{A@d(a:1)@e"x"B}
    , <<"e", "n", "u", "m", " ", "E", "@", "d", "{", "A", "@", "d", "(", "a",
      ":", "1", ")", "@", "e", "\"", "x", "\"", "B", "}">>
    \* enum E{A
    , <<"e", "n", "u", "m", " ", "E", "{", "A">>
    \* enum E
    , <<"e", "n", "u", "m", " ", "E">>
    \* input I { a: T = 1 b: [T] }
    , <<"i", "n", "p", "u", "t", " ", "I", " ", "{", " ", "a", ":", " ", "T",
      " ", "=", " ", "1", " ", "b", ":", " ", "[", "T", "]", " ", "}">>
    \* mutation { a } subscription b { c }
    , <<"m", "u", "t", "a", "t", "i", "o", "n", " ", "{", " ", "a", " ", "}",
      " ", "s", "u", "b", "s", "c", "r", "i", "p", "t", "i", "o", "n", " ",
      "b", " ", "{", " ", "c", " ", "}">>
    \* {...c@d(a:1)@e ...on T{b}}
    , <<"{", ".", ".", ".", "c", "@", "d", "(", "a", ":", "1", ")", "@", "e",
      " ", ".", ".", ".", "o", "n", " ", "T", "{", "b", "}", "}">>
    \* {...}
    , <<"{", ".", ".", ".", "}">>
    \* 2147483647
    , <<"2", "1", "4", "7", "4", "8", "3", "6", "4", "7">>
    \* -2147483648
    , <<"-", "2", "1", "4", "7", "4", "8", "3", "6", "4", "8">>
    \* -2147483649
    , <<"-", "2", "1", "4", "7", "4", "8", "3", "6", "4", "9">>
    \* 1234567890 -1234567890.1234567890
    , <<"1", "2", "3", "4", "5", "6", "7", "8", "9", "0", " ", "-", "1", "2",
      "3", "4", "5", "6", "7", "8", "9", "0", ".", "1", "2", "3", "4", "5",
      "6", "7", "8", "9", "0">>
    \* 0.0000 01 -0 123.000001
    , <<"0", ".", "0", "0", "0", "0", " ", "0", "1", " ", "-", "0", " ", "1",
      "2", "3", ".", "0", "0", "0", "0", "0", "1">>
    \* 99999999999
    , <<"9", "9", "9", "9", "9", "9", "9", "9", "9", "9", "9">>
    \* -00000000001
    , <<"-", "0", "0", "0", "0", "0", "0", "0", "0", "0", "0", "1">>
    \* "Hello, World!
    , <<"\"", "H", "e", "l", "l", "o", ",", " ", "W", "o", "r", "l", "d",
      "!">>
    \* "Hello,\nWorld!"
    , <<"\"", "H", "e", "l", "l", "o", ",", "\n", "W", "o", "r", "l", "d",
      "!", "\"">>
    \* "Hello, World!"
    , <<"\"", "H", "e", "l", "l", "o", ",", " ", "W", "o", "r", "l", "d",
      "!", "\"">>
    \* "Hello,\nWorld!"
    , <<"\"", "H", "e", "l", "l", "o", ",", "\\", "n", "W", "o", "r", "l",
      "d", "!", "\"">>
    \* "\r\t\\\"" "\u"
    , <<"\"", "\\", "r", "\\", "t", "\\", "\\", "\\", "\"", "\"", " ", "\"",
      "\\", "u", "\"">>
    \* query($a:[T){b}
    , <<"q", "u", "e", "r", "y", "(", "$", "a", ":", "[", "T", ")", "{", "b",
      "}">>
    \* query($a:[T!]!,$b:[T]){c}
    , <<"q", "u", "e", "r", "y", "(", "$", "a", ":", "[", "T", "!", "]", "!",
      ",", "$", "b", ":", "[", "T", "]", ")", "{", "c", "}">>
    \* query($a:[[T]!){b}
    , <<"q", "u", "e", "r", "y", "(", "$", "a", ":", "[", "[", "T", "]", "!",
      ")", "{", "b", "}">>
    \* query($a:T=1,$b:[T]=$c $d:T){e}
    , <<"q", "u", "e", "r", "y", "(", "$", "a", ":", "T", "=", "1", ",", "$",
      "b", ":", "[", "T", "]", "=", "$", "c", " ", "$", "d", ":", "T", ")",
      "{", "e", "}">>
    \* query(a:T){b}
    , <<"q", "u", "e", "r", "y", "(", "a", ":", "T", ")", "{", "b", "}">>
    \* query($a T){b}
    , <<"q", "u", "e", "r", "y", "(", "$", "a", " ", "T", ")", "{", "b", "}">>
    \* query($a:T=RED){b}
    , <<"q", "u", "e", "r", "y", "(", "$", "a", ":", "T", "=", "R", "E", "D",
      ")", "{", "b", "}">>
    \* query($a:T={}){b}
    , <<"q", "u", "e", "r", "y", "(", "$", "a", ":", "T", "=", "{", "}", ")",
      "{", "b", "}">>
    \* query(){a}
    , <<"q", "u", "e", "r", "y", "(", ")", "{", "a", "}">>
    \* query($a:T
    , <<"q", "u", "e", "r", "y", "(", "$", "a", ":", "T">>
    \* {... @d {a}}
    , <<"{", ".", ".", ".", " ", "@", "d", " ", "{", "a", "}", "}">>
    \* {... {a}}
    , <<"{", ".", ".", ".", " ", "{", "a", "}", "}">>
    \* {...on T@d{...on U{a}}}
    , <<"{", ".", ".", ".", "o", "n", " ", "T", "@", "d", "{", ".", ".", ".",
      "o", "n", " ", "U", "{", "a", "}", "}", "}">>
    \* {...on
    , <<"{", ".", ".", ".", "o", "n">>
    \* {...on{a}}
    , <<"{", ".", ".", ".", "o", "n", "{", "a", "}", "}">>
    \* {... on}
    , <<"{", ".", ".", ".", " ", "o", "n", "}">>
    \* "d"\nquery { a }
    , <<"\"", "d", "\"", "\n", "q", "u", "e", "r", "y", " ", "{", " ", "a",
      " ", "}">>
    \* {a} "d" fragment a on T{b}
    , <<"{", "a", "}", " ", "\"", "d", "\"", " ", "f", "r", "a", "g", "m",
      "e", "n", "t", " ", "a", " ", "o", "n", " ", "T", "{", "b", "}">>
    }
Sources == Strings(Alphabet, MaxLen) \cup QuotedStrings \cup Corpus

----------------------------------------------------------------------------
(* State.                                                                  *)

Running == [kind |-> "Running"]

Init ==
    /\ source \in Sources
    /\ pc = "lex"
    /\ lexer = Lexer_new
    /\ tokens = <<>>
    /\ lexed = Running
    /\ ptr = 0
    /\ stack = <<>>
    /\ ret = None
    /\ result = Running
    /\ printed = None

ParserIdle == UNCHANGED <<ptr, stack, ret, result, printed>>

\* a lexer that notes the diagnostic, skips the character and goes on
LexFailAndGoOn(diagnostic) ==
    /\ lexed' = [kind |-> "Err", diagnostic |-> diagnostic]
    /\ lexer' = Lexer_next(lexer)
    /\ UNCHANGED <<pc, tokens>>

\* lex returns Err(diagnostic)
LexFail(diagnostic) ==
    /\ lexed' = [kind |-> "Err", diagnostic |-> diagnostic]
    /\ pc' = "lexed"
    /\ UNCHANGED <<lexer, tokens>>

\* tokens.push(token) and the cursor left after the token
LexPush(token, lx) ==
    /\ tokens' = Append(tokens, token)
    /\ lexer' = lx
    /\ UNCHANGED <<pc, lexed>>

\* the range of a one-character punctuator
PunctuatorRange(lx, lx1) ==
    Range(Position(lx1.line, lx.character), Position(lx1.line, lx1.character))

\* the range of a Name token
NameRange(lx, lx1) ==
    Range(Position(lx.line, lx.character), Position(lx1.line, lx1.character))

\* the range of the diagnostic for a character that starts no token: the
\* cursor has not moved when it is built
UnexpectedCharacterRange(lx) ==
    Range(Position(lx.line, lx.character), Position(lx.line, lx.character))

\* an EOF token that is given the width of one character
EofRangeOneCharacter(lx) ==
    Range(Position(lx.line, lx.character), Position(lx.line, lx.character + 1))

\* the range of the EOF token
EofRange(lx) ==
    Range(Position(lx.line, lx.character), Position(lx.line, lx.character))

(* One action per arm of the match in the main loop of Lexer::lex.         *)

LexIgnored ==
    /\ pc = "lex"
    /\ Lexer_peek(lexer) \in {SPACE, TAB, BOM, ","}
    /\ lexer' = Lexer_next(lexer)
    /\ UNCHANGED <<source, pc, tokens, lexed>>
    /\ ParserIdle

LexLineTerminator ==
    /\ pc = "lex"
    /\ Lexer_peek(lexer) \in {NEW_LINE, CARRIAGE_RETURN}
    /\ lexer' = [Lexer_next([lexer EXCEPT !.line = @ + 1]) EXCEPT !.character = 0]
    /\ UNCHANGED <<source, pc, tokens, lexed>>
    /\ ParserIdle

LexComment ==
    /\ pc = "lex"
    /\ Lexer_peek(lexer) = "#"
    /\ lexer' = ignore_while({c \in Range_of(source) : ~is_line_terminator(c)}, lexer)
    /\ UNCHANGED <<source, pc, tokens, lexed>>
    /\ ParserIdle

LexPunctuator ==
    /\ pc = "lex"
    /\ Lexer_peek(lexer) \in PunctuatorChars
    /\ LET punctuator == char_to_punctuator(Lexer_peek(lexer))
           lx1 == Lexer_next(lexer)
       IN LexPush(LexicalToken("Punctuator", punctuator, PunctuatorRange(lexer, lx1)), lx1)
    /\ UNCHANGED source
    /\ ParserIdle

LexEllipsis ==
    /\ pc = "lex"
    /\ Lexer_peek(lexer) = "."
    /\ LET start_position == Position(lexer.line, lexer.character)
           lx1 == Lexer_next(lexer)
           second == expect_peek(lx1, ".")
           lx2 == Lexer_next(lx1)
           third == expect_peek(lx2, ".")
           lx3 == Lexer_next(lx2)
       IN IF ~second.ok THEN LexFail(second.diagnostic)
          ELSE IF ~third.ok THEN LexFail(third.diagnostic)
          ELSE LexPush(LexicalToken("Punctuator", "Ellipsis",
                           Range(start_position, Position(lx3.line, lx3.character))), lx3)
    /\ UNCHANGED source
    /\ ParserIdle

LexString ==
    /\ pc = "lex"
    /\ Lexer_peek(lexer) = "\""
    /\ LET r == tokenize_string(lexer)
       IN IF r.ok THEN LexPush(r.token, r.lx) ELSE LexFail(r.diagnostic)
    /\ UNCHANGED source
    /\ ParserIdle

LexMinus ==
    /\ pc = "lex"
    /\ Lexer_peek(lexer) = "-"
    /\ LET r == tokenize_number(lexer)
       IN IF r.ok THEN LexPush(r.token, r.lx) ELSE LexFail(r.diagnostic)
    /\ UNCHANGED source
    /\ ParserIdle

\* the arm `_`: a digit starts a number, a letter or "_" a name, anything else
\* is an error
LexOther ==
    /\ pc = "lex"
    /\ LET c == Lexer_peek(lexer) IN
       /\ c # NoChar
       /\ c \notin {SPACE, TAB, BOM, ",", NEW_LINE, CARRIAGE_RETURN, "#", ".", "\"", "-"}
                    \cup PunctuatorChars
       /\ IF is_ascii_digit(c)
          THEN LET r == tokenize_number(lexer)
               IN IF r.ok THEN LexPush(r.token, r.lx) ELSE LexFail(r.diagnostic)
          ELSE IF is_ascii_alphabetic(c) \/ c = "_"
          THEN LET r == consume_while({x \in Range_of(source) : is_name_continue(x)},
                                      lexer, <<>>)
               IN LexPush(LexicalToken("Name", r.result, NameRange(lexer, r.lx)), r.lx)
          ELSE LexFail(Diagnostic(<<"Unexpected character: ", c>>,
                                  UnexpectedCharacterRange(lexer)))
    /\ UNCHANGED source
    /\ ParserIdle

\* the loop ends: the EOF token is pushed and lex returns Ok(tokens)
LexEof ==
    /\ pc = "lex"
    /\ Lexer_peek(lexer) = NoChar
    /\ tokens' = Append(tokens, LexicalToken("EOF", "EOF", EofRange(lexer)))
    /\ lexed' = [kind |-> "Ok"]
    /\ pc' = "lexed"
    /\ UNCHANGED <<source, lexer>>
    /\ ParserIdle

LexStep ==
    \/ LexIgnored
    \/ LexLineTerminator
    \/ LexComment
    \/ LexPunctuator
    \/ LexEllipsis
    \/ LexString
    \/ LexMinus
    \/ LexOther
    \/ LexEof

\* parse(source): lex's Err is returned as it is; on Ok the Parser is made
\* and parse_document is called
ParseStart ==
    /\ pc = "lexed"
    /\ IF lexed.kind = "Err"
       THEN /\ result' = [kind |-> "Err", diagnostic |-> lexed.diagnostic]
            /\ pc' = "done"
            /\ UNCHANGED stack
       ELSE /\ stack' = <<Frame("parse_document", <<>>) @@ [entry |-> 0, head |-> -1]>>
            /\ pc' = "parse"
            /\ UNCHANGED result
    /\ UNCHANGED <<source, lexer, tokens, lexed, ptr, ret, printed>>

ParseStep ==
    \/ parse_document
    \/ parse_definitions
    \/ parse_scalar_type_definition
    \/ parse_fragment_definition
    \/ parse_operation_definition
    \/ parse_directives
    \/ parse_arguments
    \/ parse_argument
    \/ parse_selection_set
    \/ parse_fragment_spread
    \/ parse_inline_fragment
    \/ parse_selection
    \/ parse_variable_definitions
    \/ parse_variable_definition
    \/ parse_type
    \/ parse_list_type
    \/ parse_value
    \/ parse_list_value
    \/ parse_object_value
    \/ parse_object_field
    \/ parse_schema_definition
    \/ parse_object_type_definition
    \/ parse_interfaces
    \/ parse_fields
    \/ parse_field_definition
    \/ parse_field_arguments
    \/ parse_input_value_definition
    \/ parse_default_value
    \/ parse_interface_type_definition
    \/ parse_union_type_definition
    \/ parse_union_member_types
    \/ parse_enum_type_definition
    \/ parse_enum_values
    \/ parse_enum_value_definition
    \/ parse_input_object_type_definition
    \/ parse_input_fields

----------------------------------------------------------------------------
(* The pretty-printer, and the parse of the text it prints.                *)

\* strings.join(separator)
RECURSIVE StrJoin(_, _)
StrJoin(strings, separator) ==
    IF strings = <<>> THEN <<>>
    ELSE IF Len(strings) = 1 THEN strings[1]
    ELSE strings[1] \o separator \o StrJoin(Tail(strings), separator)

\* " ".repeat(n)
RECURSIVE Spaces(_)
Spaces(n) == IF n = 0 THEN <<>> ELSE <<" ">> \o Spaces(n - 1)

\* indent!(n, s)
indent(n, s) == Spaces(n * 2) \o s

\* i32::to_string
RECURSIVE i32_digits(_)
i32_digits(v) ==
    LET d == IF v >= 0 THEN v % 10 ELSE (10 - (v % 10)) % 10
        rest == IF v >= 0 THEN v \div 10 ELSE (v + d) \div 10
        c == <<"0", "1", "2", "3", "4", "5", "6", "7", "8", "9">>[d + 1]
    IN IF rest = 0 THEN <<c>> ELSE i32_digits(rest) \o <<c>>

i32_to_string(v) == IF v < 0 THEN <<"-">> \o i32_digits(v) ELSE i32_digits(v)

\* f32::to_string, exact for a literal of at most six significant digits
f32_to_string(v) ==
    (IF v.negative THEN <<"-">> ELSE <<>>)
        \o (IF v.int = <<>> THEN <<"0">> ELSE v.int)
        \o (IF v.frac = <<>> THEN <<>> ELSE <<".">> \o v.frac)

RECURSIVE pretty_print_value(_)
pretty_print_value(value) ==
    CASE value.node = "IntValue" -> i32_to_string(value.value)
      [] value.node = "FloatValue" -> f32_to_string(value.value)
      [] value.node = "StringValue" -> <<"\"">> \o value.value \o <<"\"">>
      [] value.node = "BooleanValue" ->
         IF value.value THEN <<"t", "r", "u", "e">> ELSE <<"f", "a", "l", "s", "e">>
      [] value.node = "NullValue" -> <<"n", "u", "l", "l">>
      [] value.node = "EnumValue" -> value.value
      [] value.node = "ListValue" ->
         <<"[">> \o StrJoin([i \in 1..Len(value.values) |->
                                pretty_print_value(value.values[i])], <<",", " ">>)
             \o <<"]">>
      [] value.node = "Variable" -> value.name.value
      [] OTHER -> <<>>

pretty_print_argument(argument) ==
    argument.name.value \o <<":", " ">> \o pretty_print_value(argument.value)

\* the arguments in parentheses when there are any
pretty_print_arguments(arguments) ==
    IF Len(arguments) > 0
    THEN <<"(">> \o StrJoin([i \in 1..Len(arguments) |->
                               pretty_print_argument(arguments[i])], <<",", " ">>)
             \o <<")">>
    ELSE <<>>

pretty_print_directive(directive) ==
    <<"@">> \o directive.name.value \o pretty_print_arguments(directive.arguments)

RECURSIVE pretty_print_selection(_, _)
RECURSIVE pretty_print_field(_, _)
pretty_print_selection(selection, depth) ==
    IF selection.node = "Field" THEN pretty_print_field(selection, depth)
    ELSE <<"T", "O", "D", "O">>

pretty_print_field(field, depth) ==
    LET alias == IF field.alias # None THEN field.alias.value \o <<":", " ">> ELSE <<>>
        directives ==
            IF Len(field.directives) > 0
            THEN <<" ">> \o StrJoin([i \in 1..Len(field.directives) |->
                                       pretty_print_directive(field.directives[i])],
                                    <<" ">>) \o <<" ">>
            ELSE <<>>
        selections ==
            IF field.selection_set # None
            THEN IF Len(field.selection_set.selections) > 0
                 THEN StrJoin(<< <<"{">> >>
                        \o [i \in 1..Len(field.selection_set.selections) |->
                              pretty_print_selection(
                                  field.selection_set.selections[i], depth + 1)]
                        \o <<indent(depth, <<"}">>)>>, <<"\n">>)
                 ELSE <<>>
            ELSE <<>>
    IN indent(depth, alias \o field.name.value
                  \o pretty_print_arguments(field.arguments)
                  \o directives \o selections)

pretty_print_operation_definition(definition, depth) ==
    LET keyword ==
            CASE definition.operation = "Query" -> <<"q", "u", "e", "r", "y">>
              [] definition.operation = "Mutation" ->
                 <<"m", "u", "t", "a", "t", "i", "o", "n">>
              [] definition.operation = "Subscription" ->
                 <<"s", "u", "b", "s", "c", "r", "i", "p", "t", "i", "o", "n">>
        name == IF definition.name # None THEN <<definition.name.value>> ELSE <<>>
        directives == [i \in 1..Len(definition.directives) |->
                          pretty_print_directive(definition.directives[i])]
        selections ==
            StrJoin(<< <<"{">> >>
                \o [i \in 1..Len(definition.selection_set.selections) |->
                      pretty_print_selection(
                          definition.selection_set.selections[i], depth + 1)]
                \o << <<"}">> >>, <<"\n">>)
    IN StrJoin(<<keyword>> \o name \o directives \o <<selections>>, <<" ">>)

\* Document::pretty_print, with Definition::pretty_print: a definition that
\* is no operation prints as the empty string
RECURSIVE pretty_print_definitions(_, _)
pretty_print_definitions(definitions, depth) ==
    IF definitions = <<>> THEN <<>>
    ELSE (IF Head(definitions).node = "OperationDefinition"
          THEN pretty_print_operation_definition(Head(definitions), depth)
          ELSE <<>>)
         \o <<"\n">> \o pretty_print_definitions(Tail(definitions), depth)

pretty_print_document(document) == pretty_print_definitions(document.definitions, 0)

\* print(&document) of the Document parse has returned, and the call of
\* parse on the printed text; printed keeps the Document that was printed
print ==
    /\ pc = "done" /\ result.kind = "Ok" /\ printed = None
    /\ printed' = result.document
    /\ source' = pretty_print_document(result.document)
    /\ pc' = "lex"
    /\ lexer' = Lexer_new
    /\ tokens' = <<>>
    /\ lexed' = Running
    /\ ptr' = 0
    /\ stack' = <<>>
    /\ ret' = None
    /\ result' = Running

Next == LexStep \/ ParseStart \/ ParseStep \/ print

Spec == Init /\ [][Next]_vars

\* the longest run of letters, digits, `_`, `.` and `-` (the characters of a
\* name or of a number) in the sources of LexSpec
MaxRun == 6

\* no run of the characters of a name or of a number in the text from the
\* index i on is longer than MaxRun, run being the length of the run that ends
\* before i
RECURSIVE RunsWithin(_, _, _)
RunsWithin(text, i, run) ==
    IF i > Len(text) THEN TRUE
    ELSE IF text[i] \in Lower \cup Upper \cup Digits \cup {"_", ".", "-"}
    THEN run < MaxRun /\ RunsWithin(text, i + 1, run + 1)
    ELSE RunsWithin(text, i + 1, 0)

\* lex(source) alone, for the sources whose runs MaxRun bounds
LexInit == Init /\ RunsWithin(source, 1, 0)

\* the main loop of Lexer::lex runs on while a character is left: a step of
\* the lexer that can be taken is taken
LexSpec == LexInit /\ [][LexStep]_vars /\ WF_vars(LexStep)

----------------------------------------------------------------------------
(* The tree a Document is: the children of a node in source order.         *)

\* an Option<T> field as the sequence of the nodes it holds
Opt(x) == IF x = None THEN <<>> ELSE <<x>>

\* the fields of a node that are nodes, in the order of the source text
Children(n) ==
    CASE n.node = "Document" -> n.definitions
      [] n.node = "OperationDefinition" ->
         Opt(n.name) \o n.variable_definitions \o n.directives
             \o <<n.selection_set>>
      [] n.node = "FragmentDefinition" ->
         <<n.name, n.type_condition>> \o n.directives \o <<n.selection_set>>
      [] n.node = "ScalarTypeDefinition" ->
         Opt(n.description) \o <<n.name>> \o n.directives
      [] n.node = "SelectionSet" -> n.selections
      [] n.node = "Field" ->
         Opt(n.alias) \o <<n.name>> \o n.arguments \o n.directives
             \o Opt(n.selection_set)
      [] n.node = "FragmentSpread" -> <<n.name>> \o n.directives
      [] n.node = "InlineFragment" ->
         Opt(n.type_condition) \o n.directives \o <<n.selection_set>>
      [] n.node = "Directive" -> <<n.name>> \o n.arguments
      [] n.node = "Argument" -> <<n.name, n.value>>
      [] n.node = "VariableDefinition" ->
         <<n.variable, n.variable_type>> \o Opt(n.default_value)
      [] n.node = "Variable" -> <<n.name>>
      [] n.node = "NamedType" -> <<n.name>>
      [] n.node \in {"ListType", "NonNullType"} -> <<n.wrapped_type>>
      [] n.node = "ListValue" -> n.values
      [] n.node = "ObjectValue" -> n.fields
      [] n.node = "ObjectField" -> <<n.name, n.value>>
      [] n.node = "SchemaDefinition" ->
         Opt(n.description) \o n.directives \o n.operation_types
      [] n.node = "RootOperationTypeDefinition" -> <<n.named_type>>
      [] n.node \in {"ObjectTypeDefinition", "InterfaceTypeDefinition"} ->
         Opt(n.description) \o <<n.name>> \o n.interfaces \o n.directives
             \o n.fields
      [] n.node = "FieldDefinition" ->
         Opt(n.description) \o <<n.name>> \o n.arguments \o <<n.field_type>>
             \o n.directives
      [] n.node = "InputValueDefinition" ->
         Opt(n.description) \o <<n.name, n.input_type>> \o Opt(n.default_value)
             \o n.directives
      [] n.node = "UnionTypeDefinition" ->
         Opt(n.description) \o <<n.name>> \o n.directives \o n.member_types
      [] n.node = "EnumTypeDefinition" ->
         Opt(n.description) \o <<n.name>> \o n.directives \o n.values
      [] n.node = "EnumValueDefinition" ->
         Opt(n.description) \o <<n.name>> \o n.directives
      [] n.node = "InputObjectTypeDefinition" ->
         Opt(n.description) \o <<n.name>> \o n.directives \o n.fields
      [] OTHER -> <<>>

\* a node and all the nodes below it
RECURSIVE Nodes(_), NodesOf(_)
Nodes(n) == <<n>> \o NodesOf(Children(n))
NodesOf(s) == IF s = <<>> THEN <<>> ELSE Nodes(Head(s)) \o NodesOf(Tail(s))

\* the nodes of the Document parse returned, none while it has returned none
DocumentNodes == IF result.kind = "Ok" THEN Nodes(result.document) ELSE <<>>

----------------------------------------------------------------------------
(* Termination and error handling of parse.                                *)

\* the frame on top of the stack has come back to the top of its loop: the
\* step left the depth of the stack as it was and the frame had been at the
\* top of its loop before
LoopIterationEnds ==
    /\ pc = "parse" /\ pc' = "parse"
    /\ Len(stack') = Len(stack)
    /\ stack'[Len(stack')].fn = Top.fn
    /\ stack'[Len(stack')].pc \in LoopHead(Top.fn)
    /\ Top.head >= 0

\* C1: every iteration of every parsing loop that does not leave the loop
\* consumes at least one token: when a frame comes back to the top of its
\* loop the cursor is beyond where it was at the top of the iteration before.
C1_LoopIterationConsumes ==
    [][LoopIterationEnds => ptr' > Top.head]_vars

\* C2: parse never aborts: it ends with a Document or a Diagnostic, never with
\* a panic and never with the overflow of the stack.
C2_ParseNeverAborts ==
    pc = "done" => result.kind \in {"Ok", "Err"}

----------------------------------------------------------------------------
(* Values.                                                                 *)

\* the function fn has just returned ret to its caller
Returned(fn) == pc = "parse" /\ ret # None /\ ret.fn = fn

\* the Field parse made of a source that is one selection set of one field
OnlyField == result.document.definitions[1].selection_set.selections[1]

\* C3: parse_value on a Name other than true, false and null returns the
\* EnumValue of that name and consumes exactly that token, and parse of
\* `{ f(a: ADMIN) }` returns a Document whose one Field has the one Argument
\* a with the value EnumValue(ADMIN).
C3_EnumValueConsumesName ==
    /\ (Returned("parse_value") /\ ret.ok /\ Tok(ret.entry).kind = "Name"
            /\ Tok(ret.entry).value \notin {<<"t", "r", "u", "e">>,
                                            <<"f", "a", "l", "s", "e">>,
                                            <<"n", "u", "l", "l">>})
       => /\ ret.value.node = "EnumValue"
          /\ ret.value.value = Tok(ret.entry).value
          /\ ptr = ret.entry + 1
    /\ (pc = "done" /\ source = EnumArgument)
       => /\ result.kind = "Ok"
          /\ Len(result.document.definitions) = 1
          /\ Len(OnlyField.arguments) = 1
          /\ OnlyField.arguments[1].name.value = <<"a">>
          /\ OnlyField.arguments[1].value.node = "EnumValue"
          /\ OnlyField.arguments[1].value.value = <<"A", "D", "M", "I", "N">>

\* the names of the fields of an ObjectValue, in the order it holds them
FieldNames(object_value) ==
    [i \in DOMAIN object_value.fields |-> object_value.fields[i].name.value]

\* C4: parse_object_value consumes the opening brace, the fields and the
\* closing brace: when it returns an ObjectValue the token before the cursor
\* is the closing brace, and parse of `{ f(a: {x: 1}) }` returns a Document
\* whose Argument a has an ObjectValue with the one field x.
C4_ObjectValueConsumesBraces ==
    /\ (Returned("parse_object_value") /\ ret.ok)
       => /\ ret.value.node = "ObjectValue"
          /\ IsPunctuator(Tok(ret.entry), "LeftBrace")
          /\ ptr >= ret.entry + 2
          /\ IsPunctuator(Tok(ptr - 1), "RightBrace")
    /\ (pc = "done" /\ source = ObjectArgument)
       => /\ result.kind = "Ok"
          /\ Len(OnlyField.arguments) = 1
          /\ OnlyField.arguments[1].value.node = "ObjectValue"
          /\ FieldNames(OnlyField.arguments[1].value) = <<(<<"x">>)>>

----------------------------------------------------------------------------
(* Positions.                                                              *)

\* C5: the Diagnostic of a character that starts no token has the range of
\* that one character: from the cursor of the lexer to one character after
\* it; for the source `?` that is (0,0)-(0,1).
C5_UnexpectedCharacterRange ==
    (lexed.kind = "Err" /\ lexed.diagnostic.message[1] = "Unexpected character: ")
    => /\ lexed.diagnostic.message[2] = source[lexer.ptr + 1]
       /\ lexed.diagnostic.range =
              Range(Position(lexer.line, lexer.character),
                    Position(lexer.line, lexer.character + 1))
       /\ source = UnexpectedCharacter
          => lexed.diagnostic.range = Range(Position(0, 0), Position(0, 1))

\* a token other than EOF has just been pushed
TokenPushed ==
    /\ Len(tokens') = Len(tokens) + 1
    /\ tokens'[Len(tokens')].kind # "EOF"

\* C6: the range of every token other than EOF starts at the position of its
\* first character, where the lexer was when it met the token, and ends just
\* after its last character, where the lexer is when it has pushed the token;
\* and a token starts no earlier than the token before it ends.
C6_TokenRangeCoversToken ==
    [][TokenPushed =>
          LET token == tokens'[Len(tokens')]
          IN /\ token.position.start = Position(lexer.line, lexer.character)
             /\ token.position.end = Position(lexer'.line, lexer'.character)
             /\ tokens # <<>> =>
                    PosLe(tokens[Len(tokens)].position.end, token.position.start)
      ]_vars

\* the nodes whose range the parser builds from where it is before and after
\* the construct; the other nodes take the range of their one token
CompositeNodes ==
    {"Document", "OperationDefinition", "FragmentDefinition", "SelectionSet",
     "Field", "FragmentSpread", "InlineFragment", "Directive", "Argument",
     "VariableDefinition", "NamedType", "ListType", "NonNullType", "ListValue",
     "ObjectValue", "ObjectField", "SchemaDefinition",
     "RootOperationTypeDefinition", "ScalarTypeDefinition",
     "ObjectTypeDefinition", "InterfaceTypeDefinition", "FieldDefinition",
     "InputValueDefinition", "UnionTypeDefinition", "EnumTypeDefinition",
     "EnumValueDefinition", "InputObjectTypeDefinition"}

\* the functions that take the description of the definition they parse
DefinitionFunctions == {TypeSystemFunction(keyword) : keyword \in TypeSystemKeywords}

\* the functions that return one node
NodeFunctions ==
    DefinitionFunctions \cup
    {"parse_fragment_definition", "parse_operation_definition", "parse_argument",
     "parse_selection_set", "parse_fragment_spread", "parse_inline_fragment",
     "parse_selection", "parse_variable_definition", "parse_type",
     "parse_list_type", "parse_value", "parse_list_value", "parse_object_value",
     "parse_object_field", "parse_field_definition",
     "parse_input_value_definition", "parse_enum_value_definition"}

\* a function has just returned a composite node to its caller
CompositeReturned ==
    /\ pc = "parse" /\ ret # None /\ ret.ok
    /\ ret.fn \in NodeFunctions
    /\ ret.value.node \in CompositeNodes

\* the start of the first token of the construct the function fn parsed from
\* the cursor entry into the node n: the description a definition was given
\* comes before it
FirstTokenStart(fn, n, entry) ==
    IF fn \in DefinitionFunctions /\ n.description # None
    THEN n.description.position.start
    ELSE Tok(entry).position.start

\* C7: the range of a composite node starts at the start of the first token
\* of the construct and ends at the start of the next token not consumed.
C7_CompositeNodeRange ==
    /\ CompositeReturned
       => /\ ret.value.position.start = FirstTokenStart(ret.fn, ret.value, ret.entry)
          /\ ret.value.position.end = Tok(ptr).position.start
    /\ result.kind = "Ok"
       => /\ result.document.position.start = Tok(0).position.start
          /\ result.document.position.end = Tok(ptr).position.start

\* the children c of a node n lie within n and start in the order of the
\* source: what the chain n.start <= c1.start <= ... <= ck.end <= n.end
\* says of n at the least
Monotone(n) ==
    LET c == Children(n)
    IN /\ \A i \in DOMAIN c :
             /\ PosLe(n.position.start, c[i].position.start)
             /\ PosLe(c[i].position.end, n.position.end)
       /\ \A i \in 1..(Len(c) - 1) :
             PosLe(c[i].position.start, c[i + 1].position.start)

\* C8: in every Document parse returns, the children of every node lie
\* within the node and in the order of the source, under the order of
\* (line, character).
C8_PositionMonotonicity ==
    \A i \in DOMAIN DocumentNodes : Monotone(DocumentNodes[i])

\* a range that does not end before it starts
WellOrdered(range) == PosLe(range.start, range.end)

\* C9: the range of every token lex pushes and of every node of every
\* Document parse returns ends at or after its start, under the order of
\* (line, character).
C9_EndNotBeforeStart ==
    /\ \A i \in DOMAIN tokens : WellOrdered(tokens[i].position)
    /\ \A i \in DOMAIN DocumentNodes : WellOrdered(DocumentNodes[i].position)

\* parse has returned a Document that holds an IntValue under other nodes
C9_DocumentWithNumber ==
    /\ pc = "done" /\ result.kind = "Ok"
    /\ \E i \in DOMAIN DocumentNodes : DocumentNodes[i].node = "IntValue"
    /\ \E i \in DOMAIN DocumentNodes : DocumentNodes[i].node = "Argument"
    /\ \E i \in DOMAIN tokens : tokens[i].kind = "IntValue"

\* the EOF token of the position (line, character)
EofAt(line, character) ==
    LexicalToken("EOF", "EOF",
                 Range(Position(line, character), Position(line, character)))

\* C10: when lex returns Ok the tokens are not empty, the last one is the EOF
\* token, no other one is, and the EOF token is the point (line, character)
\* the lexer ended at, the end of the source; for the empty source the tokens
\* are the one EOF token at (0,0).
C10_EofIsLastToken ==
    lexed.kind = "Ok"
    => /\ tokens # <<>>
       /\ tokens[Len(tokens)] = EofAt(lexer.line, lexer.character)
       /\ lexer.ptr = Len(source)
       /\ \A i \in 1..(Len(tokens) - 1) : tokens[i].kind # "EOF"
       /\ source = <<>> => tokens = <<EofAt(0, 0)>>

\* lex has returned Ok for a source of more than one line and token
C10_LexedLines ==
    /\ lexed.kind = "Ok"
    /\ Len(tokens) >= 3
    /\ lexer.line > 0 /\ lexer.character > 0

----------------------------------------------------------------------------
(* Definitions.                                                            *)

\* the one definition of a Document that holds one
OnlyDefinition == result.document.definitions[1]

\* C11: an OperationDefinition is anonymous exactly when it began with a bare
\* `{`, and then it is a Query without a name; one that began with query,
\* mutation or subscription has that OperationType and is not anonymous, and
\* `query { test }` gives one such Query without a name whose one selection is
\* the Field test.
C11_AnonymousIffBareBrace ==
    /\ (Returned("parse_operation_definition") /\ ret.ok)
       => LET first == Tok(ret.entry)
              n == ret.value
          IN /\ n.anonymous <=> IsPunctuator(first, "LeftBrace")
             /\ n.anonymous => n.operation = "Query" /\ n.name = None
             /\ ~n.anonymous =>
                   \/ IsName(first, <<"q", "u", "e", "r", "y">>)
                      /\ n.operation = "Query"
                   \/ IsName(first, <<"m", "u", "t", "a", "t", "i", "o", "n">>)
                      /\ n.operation = "Mutation"
                   \/ IsName(first, <<"s", "u", "b", "s", "c", "r", "i", "p", "t",
                                      "i", "o", "n">>)
                      /\ n.operation = "Subscription"
    /\ (pc = "done" /\ source = UnnamedQuery)
       => /\ result.kind = "Ok"
          /\ Len(result.document.definitions) = 1
          /\ OnlyDefinition.node = "OperationDefinition"
          /\ OnlyDefinition.operation = "Query"
          /\ OnlyDefinition.name = None
          /\ ~OnlyDefinition.anonymous
          /\ Len(OnlyDefinition.selection_set.selections) = 1
          /\ OnlyField.node = "Field"
          /\ OnlyField.name.value = <<"t", "e", "s", "t">>

\* parse has returned a Document of a mutation without a name and a
\* subscription with one
C11_KeywordOperations ==
    /\ pc = "done" /\ result.kind = "Ok"
    /\ Len(result.document.definitions) = 2
    /\ \A i \in 1..2 : result.document.definitions[i].node = "OperationDefinition"
    /\ OnlyDefinition.operation = "Mutation"
    /\ OnlyDefinition.name = None
    /\ result.document.definitions[2].operation = "Subscription"
    /\ result.document.definitions[2].name # None

\* parse_definitions is at the top of its loop: the cursor is at the boundary
\* of a definition
AtDefinitionBoundary ==
    /\ Running_fn("parse_definitions") /\ Top.pc = "start"
    /\ InRange(ptr)

\* the names a definition starts with
DefinitionKeywords ==
    TypeSystemKeywords \cup
    {<<"q", "u", "e", "r", "y">>,
     <<"m", "u", "t", "a", "t", "i", "o", "n">>,
     <<"s", "u", "b", "s", "c", "r", "i", "p", "t", "i", "o", "n">>,
     <<"f", "r", "a", "g", "m", "e", "n", "t">>}

\* the token is a description that no type-system keyword follows
DescriptionOfNothing(p) ==
    /\ Tok(p).kind = "StringValue"
    /\ ~(Tok(p + 1).kind = "Name" /\ Tok(p + 1).value \in TypeSystemKeywords)

\* the token is no description and starts no definition
StartsNoDefinition(token) ==
    /\ token.kind \notin {"EOF", "StringValue"}
    /\ ~IsPunctuator(token, "LeftBrace")
    /\ ~(token.kind = "Name" /\ token.value \in DefinitionKeywords)

\* C12: at the boundary of a definition, a description that none of schema,
\* scalar, type, interface, union, enum, input follows, and any other token
\* that starts no definition, make parse_definitions return the Err `Expected
\* operation definition`, and parse returns the Err parse_definitions
\* returned.
C12_ExpectedOperationDefinition ==
    [][/\ (AtDefinitionBoundary
               /\ (DescriptionOfNothing(ptr) \/ StartsNoDefinition(Tok(ptr))))
          => /\ pc' = "parse" /\ ret' # None /\ ~ret'.ok
             /\ ret'.fn = "parse_definitions"
             /\ ret'.diagnostic.message = <<"Expected operation definition">>
       /\ (pc = "parse" /\ ret # None /\ ~ret.ok /\ ret.fn = "parse_definitions")
          => /\ pc' = "done"
             /\ result' = [kind |-> "Err", diagnostic |-> ret.diagnostic]
      ]_vars

\* parse has returned Err for a description that a `{` follows
C12_DescriptionBeforeBrace ==
    /\ pc = "done" /\ result.kind = "Err"
    /\ result.diagnostic.message = <<"Expected operation definition">>
    /\ Tok(0).kind = "StringValue"
    /\ IsPunctuator(Tok(1), "LeftBrace")

\* the keyword of an OperationType
OperationKeyword(operation_type) ==
    CASE operation_type = "Query" -> <<"q", "u", "e", "r", "y">>
      [] operation_type = "Mutation" -> <<"m", "u", "t", "a", "t", "i", "o", "n">>
      [] operation_type = "Subscription" ->
         <<"s", "u", "b", "s", "c", "r", "i", "p", "t", "i", "o", "n">>

\* parse_schema_definition is at the top of its loop on an entry whose name
\* is none of query, mutation, subscription
AtInvalidSchemaEntry ==
    /\ Running_fn("parse_schema_definition") /\ Top.pc = "loop"
    /\ InRange(ptr)
    /\ Tok(ptr).kind = "Name"
    /\ Tok(ptr).value \notin {OperationKeyword(o) :
                                 o \in {"Query", "Mutation", "Subscription"}}

\* operation_types holds the entries of the block that ends before the
\* cursor p, one of three tokens each, in the order of the source
EntriesInOrder(operation_types, p) ==
    LET k == Len(operation_types)
        first == p - 1 - 3 * k
    IN /\ IsPunctuator(Tok(p - 1), "RightBrace")
       /\ IsPunctuator(Tok(first - 1), "LeftBrace")
       /\ \A i \in 1..k :
             LET entry == first + 3 * (i - 1)
                 operation_type == operation_types[i]
             IN /\ operation_type.node = "RootOperationTypeDefinition"
                /\ IsName(Tok(entry), OperationKeyword(operation_type.operation_type))
                /\ IsPunctuator(Tok(entry + 1), "Colon")
                /\ Tok(entry + 2).kind = "Name"
                /\ operation_type.named_type.node = "NamedType"
                /\ operation_type.named_type.name.value = Tok(entry + 2).value

\* C13: in a schema block an entry whose name is none of query, mutation,
\* subscription makes parse_schema_definition return Err, and parse returns
\* Err for the block with the entry foo: Foo; a SchemaDefinition it returns
\* holds one RootOperationTypeDefinition for each entry of the block, in the
\* order of the source, with the OperationType of the entry's keyword and
\* the named type of the entry.
C13_SchemaOperationTypes ==
    [][/\ AtInvalidSchemaEntry
          => /\ pc' = "parse" /\ ret' # None /\ ~ret'.ok
             /\ ret'.fn = "parse_schema_definition"
       /\ (pc' = "parse" /\ ret' # None /\ ret'.ok
              /\ ret'.fn = "parse_schema_definition")
          => /\ ret'.value.node = "SchemaDefinition"
             /\ EntriesInOrder(ret.value.operation_types, ptr)'
       /\ (pc' = "done" /\ source = InvalidSchemaDefinitions)
          => result'.kind = "Err"
       /\ (pc' = "done" /\ source = SchemaDefinitions)
          => /\ result'.kind = "Ok"
             /\ Len(result'.document.definitions) = 1
             /\ result'.document.definitions[1].node = "SchemaDefinition"
             /\ Len(result'.document.definitions[1].operation_types) = 3
      ]_vars

\* parse has returned the SchemaDefinition of a block of three entries
C13_ThreeOperationTypes ==
    /\ pc = "done" /\ result.kind = "Ok"
    /\ Len(result.document.definitions) = 1
    /\ OnlyDefinition.node = "SchemaDefinition"
    /\ Len(OnlyDefinition.operation_types) = 3
    /\ OnlyDefinition.operation_types[2].operation_type = "Mutation"

----------------------------------------------------------------------------
(* Selections.                                                             *)

\* parse_selection is called with the cursor on a token
AtSelection ==
    /\ Running_fn("parse_selection") /\ Top.pc = "start"
    /\ InRange(ptr)

\* and that token is `...`
AtEllipsis == AtSelection /\ IsPunctuator(Tok(ptr), "Ellipsis")

\* the step has returned the Err of parse_selection with the message
SelectionErr(message) ==
    /\ pc' = "parse" /\ ret' # None /\ ~ret'.ok
    /\ ret'.fn = "parse_selection"
    /\ ret'.diagnostic.message = <<message>>

\* the step has called the function fn with the cursor after the `...`
FragmentCalled(fn) ==
    /\ pc' = "parse"
    /\ Len(stack') = Len(stack) + 1
    /\ stack'[Len(stack')].fn = fn
    /\ ptr' = ptr + 1

\* parse_selection has returned the Selection of a construct that began with
\* `...`: the InlineFragment of `... on`, else the FragmentSpread of the name
\* after the `...` with the directives after the name
FragmentReturned ==
    LET n == ret.value
        name == Tok(ret.entry + 1)
    IN IF name.value = <<"o", "n">>
       THEN n.node = "InlineFragment"
       ELSE /\ n.node = "FragmentSpread"
            /\ n.name.value = name.value
            /\ n.directives # <<>> <=> IsPunctuator(Tok(ret.entry + 2), "AtSign")
            /\ n.directives # <<>> =>
                   n.directives[1].name.value = Tok(ret.entry + 3).value
            /\ ~IsPunctuator(Tok(ptr), "AtSign")

\* C14: in a selection set, `...` before the Name on is given to
\* parse_inline_fragment and yields an InlineFragment, `...` before any
\* other Name is given to parse_fragment_spread and yields the FragmentSpread
\* of that name and of the directives after it, `...` before a token that is
\* no Name yields the Err `Expected Fragment Spread or Inline Fragment`, and
\* a token that is neither `...` nor a Name yields the Err `Expected
\* Selection`.
C14_SelectionDispatch ==
    [][/\ (AtEllipsis /\ Tok(ptr + 1).kind = "Name")
          => IF Tok(ptr + 1).value = <<"o", "n">>
             THEN FragmentCalled("parse_inline_fragment")
             ELSE FragmentCalled("parse_fragment_spread")
       /\ (AtEllipsis /\ Tok(ptr + 1).kind # "Name")
          => SelectionErr("Expected Fragment Spread or Inline Fragment")
       /\ (AtSelection /\ ~AtEllipsis /\ Tok(ptr).kind # "Name")
          => SelectionErr("Expected Selection")
       /\ (pc' = "parse" /\ ret' # None /\ ret'.ok /\ ret'.fn = "parse_selection"
              /\ IsPunctuator(Tok(ret'.entry), "Ellipsis"))
          => FragmentReturned'
      ]_vars

\* parse has returned a Document whose selections are a FragmentSpread with
\* two directives and an InlineFragment
C14_SpreadAndInlineFragment ==
    /\ pc = "done" /\ result.kind = "Ok"
    /\ Len(result.document.definitions) = 1
    /\ OnlyDefinition.node = "OperationDefinition"
    /\ Len(OnlyDefinition.selection_set.selections) = 2
    /\ OnlyField.node = "FragmentSpread"
    /\ Len(OnlyField.directives) = 2
    /\ OnlyDefinition.selection_set.selections[2].node = "InlineFragment"

----------------------------------------------------------------------------
(* Types.                                                                  *)

\* the source text of a Type, without ignored characters
RECURSIVE TypeText(_)
TypeText(t) ==
    CASE t.node = "NamedType" -> t.name.value
      [] t.node = "ListType" -> <<"[">> \o TypeText(t.wrapped_type) \o <<"]">>
      [] t.node = "NonNullType" -> TypeText(t.wrapped_type) \o <<"!">>

\* the source text of the tokens from the cursor from up to the cursor to
RECURSIVE TokensText(_, _)
TokensText(from, to) ==
    IF from >= to THEN <<>>
    ELSE LET token == Tok(from)
             text == IF token.kind = "Name" THEN token.value
                     ELSE IF token.kind = "Punctuator"
                     THEN <<CHOOSE c \in PunctuatorChars :
                                char_to_punctuator(c) = token.value>>
                     ELSE <<token.kind>>
         IN text \o TokensText(from + 1, to)

\* the Type without its positions
RECURSIVE TypeShape(_)
TypeShape(t) ==
    IF t.node = "NamedType" THEN [node |-> "NamedType", name |-> t.name.value]
    ELSE [node |-> t.node, wrapped_type |-> TypeShape(t.wrapped_type)]

\* the Type parse_type has returned is the tree of the tokens it consumed,
\* and no NonNullType wraps a NonNullType
TypeReturned ==
    (Returned("parse_type") /\ ret.ok)
    => /\ ret.value.node \in {"NamedType", "ListType", "NonNullType"}
       /\ TypeText(ret.value) = TokensText(ret.entry, ptr)
       /\ ret.value.node = "NonNullType"
          => ret.value.wrapped_type.node \in {"NamedType", "ListType"}

\* the type of the variable of the source NestedListType
NestedListTypeParsed ==
    (pc = "done" /\ source = NestedListType)
    => /\ result.kind = "Ok"
       /\ TypeShape(OnlyDefinition.variable_definitions[1].variable_type) =
          [node |-> "ListType", wrapped_type |->
           [node |-> "NonNullType", wrapped_type |->
            [node |-> "ListType", wrapped_type |->
             [node |-> "NonNullType", wrapped_type |->
              [node |-> "NamedType", name |-> <<"I", "n", "t">>]]]]]

\* C15: the Type parse_type returns is the tree of the tokens it consumed: a
\* NamedType for a Name, a ListType of T for `[` T `]`, a NonNullType of
\* either for the one `!` after it, so that `[[Int!]!]` is
\* ListType(NonNullType(ListType(NonNullType(NamedType(Int))))); and a list
\* type whose wrapped type no `]` follows yields the Err `Expected "]"`.
C15_TypeWrapperTree ==
    [][/\ TypeReturned'
       /\ NestedListTypeParsed'
       /\ (Running_fn("parse_list_type") /\ Top.pc = "wrapped_type"
              /\ ret # None /\ ret.ok /\ InRange(ptr)
              /\ ~IsPunctuator(Tok(ptr), "RightBracket"))
          => /\ pc' = "parse" /\ ret' # None /\ ~ret'.ok
             /\ ret'.fn = "parse_list_type"
             /\ ret'.diagnostic.message = <<"Expected \"]\"">>
      ]_vars

\* parse has returned the Document of the source NestedListType
C15_NestedListTypeDocument ==
    /\ pc = "done" /\ result.kind = "Ok"
    /\ source = NestedListType
    /\ OnlyDefinition.variable_definitions[1].variable_type.node = "ListType"

----------------------------------------------------------------------------
(* Errors.                                                                 *)

\* the step is the first lexical error: the lexer was Running without an
\* error and the token that starts at its cursor yields the Diagnostic
FirstLexicalError ==
    /\ lexed.kind = "Running" /\ lexed'.kind = "Err"

\* a callee has returned an Err to the function on top of the stack
ErrReturned == pc = "parse" /\ ret # None /\ ~ret.ok

\* C16: lex stops at the first lexical error: the step that meets it ends
\* lex with the Diagnostic alone, raised at or after the cursor on the line
\* of the cursor, and nothing is lexed after it; parse then returns that
\* Diagnostic and the parser never runs; an Err a parsing function returns
\* is returned by its caller at once with the cursor where it was; and what
\* parse returns is a Document or a Diagnostic, never both.
C16_FailFast ==
    [][/\ FirstLexicalError
          => /\ pc = "lex" /\ pc' = "lexed"
             /\ DOMAIN lexed' = {"kind", "diagnostic"}
             /\ lexed'.diagnostic.range.start.line = lexer.line
             /\ lexed'.diagnostic.range.start.character >= lexer.character
       /\ lexed.kind = "Err"
          => /\ pc = "lexed" /\ pc' = "done"
             /\ UNCHANGED <<lexer, tokens, lexed>>
             /\ result' = [kind |-> "Err", diagnostic |-> lexed.diagnostic]
             /\ stack' = <<>> /\ ptr' = 0 /\ ret' = None
       /\ lexed'.kind = "Err" => lexed.kind \in {"Running", "Err"}
       /\ ErrReturned
          => /\ ptr' = ptr
             /\ IF Len(stack) = 1
                THEN /\ pc' = "done"
                     /\ result' = [kind |-> "Err", diagnostic |-> ret.diagnostic]
                ELSE /\ pc' = "parse"
                     /\ Len(stack') = Len(stack) - 1
                     /\ ret' # None /\ ~ret'.ok
                     /\ ret'.diagnostic = ret.diagnostic
       /\ pc' = "done"
          => /\ result'.kind = "Ok" => DOMAIN result' = {"kind", "document"}
             /\ result'.kind = "Err" => DOMAIN result' = {"kind", "diagnostic"}
      ]_vars

\* parse has returned the Err of a lexical error that came after a token
C16_LexicalErrorAfterToken ==
    /\ pc = "done" /\ lexed.kind = "Err"
    /\ tokens # <<>>
    /\ result.kind = "Err" /\ result.diagnostic = lexed.diagnostic

----------------------------------------------------------------------------
(* Strings.                                                                *)

\* the character each escape denotes
Escaped ==
    [c \in {"n", "r", "t", "\\", "\""} |->
        CASE c = "n" -> NEW_LINE
          [] c = "r" -> CARRIAGE_RETURN
          [] c = "t" -> TAB
          [] OTHER -> c]

\* text is the inside of a string on one line: escapes of the table and
\* characters other than the quote, the backslash and the line terminators
RECURSIVE IsStringBody(_)
IsStringBody(text) ==
    IF text = <<>> THEN TRUE
    ELSE IF text[1] = "\\"
    THEN /\ Len(text) >= 2
         /\ text[2] \in DOMAIN Escaped
         /\ IsStringBody(SubSeq(text, 3, Len(text)))
    ELSE /\ text[1] \notin {"\"", NEW_LINE, CARRIAGE_RETURN}
         /\ IsStringBody(Tail(text))

\* the inside of a string with each escape replaced by its character
RECURSIVE Decoded(_)
Decoded(text) ==
    IF text = <<>> THEN <<>>
    ELSE IF text[1] = "\\"
    THEN <<Escaped[text[2]]>> \o Decoded(SubSeq(text, 3, Len(text)))
    ELSE <<text[1]>> \o Decoded(Tail(text))

\* the lexer is at the opening quote of a string
AtString == pc = "lex" /\ Lexer_peek(lexer) = "\""

\* the text of the source from after the opening quote to before the
\* character i of the source
StringBefore(i) == SubSeq(source, lexer.ptr + 2, i - 1)

\* C17: a string that is closed on its line lexes to the StringValue of the
\* text between its quotes with each escape \n, \r, \t, \\, \" replaced by
\* its character and the other characters as they are, and the lexer is
\* left after the closing quote; a backslash in a string before a character
\* that is none of n, r, t, \, ", or before the end of the source, yields
\* the Err `Invalid character escape sequence.`.
C17_StringValueDecoded ==
    [][AtString =>
          \A i \in (lexer.ptr + 2)..Len(source) :
             /\ (source[i] = "\"" /\ IsStringBody(StringBefore(i)))
                => /\ Len(tokens') = Len(tokens) + 1
                   /\ tokens' = Append(tokens, tokens'[Len(tokens')])
                   /\ tokens'[Len(tokens')].kind = "StringValue"
                   /\ tokens'[Len(tokens')].value = Decoded(StringBefore(i))
                   /\ lexer'.ptr = i
                   /\ lexed' = Running
             /\ (source[i] = "\\" /\ IsStringBody(StringBefore(i))
                    /\ (i = Len(source) \/ source[i + 1] \notin DOMAIN Escaped))
                => /\ lexed'.kind = "Err"
                   /\ lexed'.diagnostic.message =
                          <<"Invalid character escape sequence.">>
      ]_vars

\* lex has returned a StringValue that holds a line terminator an escape
\* denotes, after another character
C17_EscapedLineTerminator ==
    /\ lexed.kind = "Ok"
    /\ tokens[1].kind = "StringValue"
    /\ Len(tokens[1].value) >= 2
    /\ tokens[1].value[2] = NEW_LINE

\* the number of backslashes in a row that end at the character i of the
\* source, after the character low
RECURSIVE BackslashRun(_, _)
BackslashRun(i, low) ==
    IF i > low /\ source[i] = "\\" THEN 1 + BackslashRun(i - 1, low) ELSE 0

\* the character i of the source closes the string the lexer is at: it is a
\* quote that no backslash escapes, on the line of the opening quote
ClosesString(i) ==
    /\ source[i] = "\""
    /\ BackslashRun(i - 1, lexer.ptr + 1) % 2 = 0
    /\ \A j \in (lexer.ptr + 2)..(i - 1) : ~is_line_terminator(source[j])

\* C18: a string that no unescaped quote closes before the next line
\* terminator or the end of the source makes lex return Err, and the text
\* of the source a StringValue token is made of holds no line terminator.
C18_UnterminatedString ==
    [][AtString =>
          /\ (\A i \in (lexer.ptr + 2)..Len(source) : ~ClosesString(i))
             => /\ lexed'.kind = "Err" /\ pc' = "lexed"
                /\ tokens' = tokens
          /\ Len(tokens') > Len(tokens)
             => \A j \in (lexer.ptr + 1)..lexer'.ptr : ~is_line_terminator(source[j])
      ]_vars

\* lex has returned Err for a string whose closing quote is on the next line
C18_ClosedOnNextLine ==
    /\ lexed.kind = "Err"
    /\ lexed.diagnostic.message = <<"Unterminated string.">>
    /\ Lexer_peek(lexer) = "\""
    /\ \E i \in (lexer.ptr + 3)..(Len(source) - 1) :
          /\ is_line_terminator(source[i])
          /\ source[Len(source)] = "\""

----------------------------------------------------------------------------
(* Numbers.  The literal the lexer is at is read off the source, and its   *)
(* value is compared digit by digit so that no literal is too long.        *)

DecimalDigits == <<"0", "1", "2", "3", "4", "5", "6", "7", "8", "9">>

\* the digits of the source in a row from the character i on
RECURSIVE DigitRun(_)
DigitRun(i) ==
    IF i <= Len(source) /\ source[i] \in Digits
    THEN <<source[i]>> \o DigitRun(i + 1)
    ELSE <<>>

\* digits without the zeros before the first digit that matters
RECURSIVE Canonical(_)
Canonical(digits) ==
    IF Len(digits) > 1 /\ digits[1] = "0" THEN Canonical(Tail(digits)) ELSE digits

\* the digits of the magnitude of the integer v
RECURSIVE MagnitudeDigits(_)
MagnitudeDigits(v) ==
    LET d == IF v >= 0 THEN v % 10 ELSE (10 - (v % 10)) % 10
        rest == IF v >= 0 THEN v \div 10 ELSE (v + d) \div 10
    IN IF rest = 0 THEN <<DecimalDigits[d + 1]>>
       ELSE MagnitudeDigits(rest) \o <<DecimalDigits[d + 1]>>

\* the integer v is the value of the literal of the sign and the digits
IsValueOf(v, negative, digits) ==
    /\ MagnitudeDigits(v) = Canonical(digits)
    /\ v < 0 <=> (negative /\ Canonical(digits) # <<"0">>)

\* a <= b, for digits a and b of one length
DigitsLe(a, b) ==
    \A i \in 1..Len(a) :
       (\A j \in 1..(i - 1) : a[j] = b[j])
       => \E m, n \in 1..10 : /\ DecimalDigits[m] = a[i]
                              /\ DecimalDigits[n] = b[i]
                              /\ m <= n

\* the value of the literal lies in [-2^31, 2^31 - 1]
InI32Range(negative, digits) ==
    LET c == Canonical(digits)
        limit == IF negative
                 THEN <<"2", "1", "4", "7", "4", "8", "3", "6", "4", "8">>
                 ELSE <<"2", "1", "4", "7", "4", "8", "3", "6", "4", "7">>
    IN Len(c) < Len(limit) \/ (Len(c) = Len(limit) /\ DigitsLe(c, limit))

\* the lexer is at the first character of a numeric literal
AtNumber == pc = "lex" /\ Lexer_peek(lexer) \in Digits \cup {"-"}

\* the literal the lexer is at: its sign, its digits, the index in the
\* source of the character after them, and the digits after a `.` there
Literal ==
    LET negative == Lexer_peek(lexer) = "-"
        first == IF negative THEN lexer.ptr + 2 ELSE lexer.ptr + 1
        digits == DigitRun(first)
        after == first + Len(digits)
        fraction == after <= Len(source) /\ source[after] = "."
    IN [negative |-> negative, digits |-> digits, after |-> after,
        fraction |-> fraction,
        decimals |-> IF fraction THEN DigitRun(after + 1) ELSE <<>>]

\* the step pushes one token of the kind and leaves the lexer at the
\* character i of the source
OneTokenPushed(kind, i) ==
    /\ Len(tokens') = Len(tokens) + 1
    /\ tokens' = Append(tokens, tokens'[Len(tokens')])
    /\ tokens'[Len(tokens')].kind = kind
    /\ lexer'.ptr = i - 1
    /\ lexed' = Running

\* the step ends lex with an Err
LexReturnsErr == lexed'.kind = "Err" /\ pc' = "lexed" /\ tokens' = tokens

\* what lex does with the numeric literal it is at; IsInteger, a predicate
\* of the sign and the digits, says which literals are to lex to an IntValue
NumberLexed(IsInteger(_, _)) ==
    /\ AtNumber =>
          LET l == Literal IN
          /\ l.digits = <<>> => LexReturnsErr
          /\ (l.digits # <<>> /\ l.fraction)
             => IF l.decimals = <<>> THEN LexReturnsErr
                ELSE OneTokenPushed("FloatValue", l.after + 1 + Len(l.decimals))
          /\ (l.digits # <<>> /\ ~l.fraction /\ IsInteger(l.negative, l.digits))
             => /\ OneTokenPushed("IntValue", l.after)
                /\ IsValueOf(tokens'[Len(tokens')].value, l.negative, l.digits)
    /\ (pc = "lex" /\ Lexer_peek(lexer) = "." /\ DigitRun(lexer.ptr + 2) # <<>>)
       => LexReturnsErr

\* every literal
AnyLiteral(negative, digits) == TRUE

\* C19, for every integer: a numeric literal with a fraction lexes to
\* one FloatValue token and every one without to one IntValue token whose
\* value is the literal's; a `-` or a `.` that no digit follows and a
\* literal that starts with `.` make lex return Err.
C19_EveryIntegerLiteral == [][NumberLexed(AnyLiteral)]_vars

\* C19, within the i32 range: a numeric literal with a fraction lexes to one FloatValue
\* token, and one without whose value lies in [-2^31, 2^31 - 1] to one
\* IntValue token whose value is the literal's; a `-` or a `.` that no digit
\* follows and a literal that starts with `.` make lex return Err.
C19_NumericLiteral == [][NumberLexed(InI32Range)]_vars

\* lex has returned the tokens of an integer and a negative float
C19_IntegerAndFloat ==
    /\ lexed.kind = "Ok"
    /\ Len(tokens) = 3
    /\ tokens[1].kind = "IntValue" /\ tokens[1].value > 9
    /\ tokens[2].kind = "FloatValue" /\ tokens[2].value.negative

\* C20: an integer literal whose value lies in [-2^31, 2^31 - 1] lexes to
\* the IntValue of that value, and one whose value lies outside makes lex
\* return the Err `Invalid number`: no IntValue is made of it.
C20_IntegerInI32Range ==
    [][(AtNumber /\ Literal.digits # <<>> /\ ~Literal.fraction)
       => IF InI32Range(Literal.negative, Literal.digits)
          THEN /\ OneTokenPushed("IntValue", Literal.after)
               /\ IsValueOf(tokens'[Len(tokens')].value, Literal.negative,
                            Literal.digits)
          ELSE /\ LexReturnsErr
               /\ lexed'.diagnostic.message = <<"Invalid number">>
      ]_vars

\* lex has returned the IntValue of the least i32
C20_LeastI32 ==
    /\ lexed.kind = "Ok"
    /\ tokens[1].kind = "IntValue"
    /\ tokens[1].value = I32_MIN

----------------------------------------------------------------------------
(* Ellipsis.                                                               *)

\* the lexer is at a `.`
AtDot == pc = "lex" /\ Lexer_peek(lexer) = "."

\* the number of dots in a row at the cursor, up to three
DotsAtCursor ==
    IF lexer.ptr + 2 > Len(source) \/ source[lexer.ptr + 2] # "." THEN 1
    ELSE IF lexer.ptr + 3 > Len(source) \/ source[lexer.ptr + 3] # "." THEN 2
    ELSE 3

\* C21: three dots in a row lex to one Punctuator(Ellipsis) token whose range
\* is the three characters; a `.` that two more dots do not follow makes lex
\* return an Err whose range starts where the second or the third dot was
\* missing.
C21_EllipsisOrErr ==
    [][AtDot =>
          IF DotsAtCursor = 3
          THEN /\ OneTokenPushed("Punctuator", lexer.ptr + 4)
               /\ tokens'[Len(tokens')] =
                      LexicalToken("Punctuator", "Ellipsis",
                          Range(Position(lexer.line, lexer.character),
                                Position(lexer.line, lexer.character + 3)))
          ELSE /\ LexReturnsErr
               /\ lexed'.diagnostic.range.start =
                      Position(lexer.line, lexer.character + DotsAtCursor)
               /\ lexed'.diagnostic.message[1] = "Expected \""
               /\ lexed'.diagnostic.message[2] = "."
      ]_vars

\* lex has returned Err for two dots that no third dot follows, on the
\* second line of the source
C21_ThirdDotMissing ==
    /\ lexed.kind = "Err"
    /\ Lexer_peek(lexer) = "."
    /\ lexer.line > 0
    /\ lexed.diagnostic.range.start = Position(lexer.line, lexer.character + 2)

----------------------------------------------------------------------------
(* Variable definitions.                                                   *)

\* the number of tokens of a Type
RECURSIVE TypeTokens(_)
TypeTokens(t) ==
    CASE t.node = "NamedType" -> 1
      [] t.node = "ListType" -> 2 + TypeTokens(t.wrapped_type)
      [] t.node = "NonNullType" -> 1 + TypeTokens(t.wrapped_type)

\* the number of tokens of a Value that holds no enum and no object value
RECURSIVE ValueTokens(_)
ValueTokens(value) ==
    CASE value.node = "Variable" -> 2
      [] value.node = "ListValue" ->
         LET RECURSIVE Sum(_)
             Sum(i) == IF i > Len(value.values) THEN 0
                       ELSE ValueTokens(value.values[i]) + Sum(i + 1)
         IN 2 + Sum(1)
      [] OTHER -> 1

\* the default value is the value that starts with the token
DefaultOf(value, k) ==
    LET token == Tok(k)
    IN /\ value # None
       /\ token.kind \in {"IntValue", "FloatValue", "StringValue"}
          => value.node = token.kind /\ value.value = token.value
       /\ IsPunctuator(token, "DollarSign")
          => value.node = "Variable" /\ value.name.value = Tok(k + 1).value

\* the VariableDefinitions from the i-th on are the entries
\* `$name: Type [= default]` of the tokens from the cursor k up to close
RECURSIVE VariableEntries(_, _, _, _)
VariableEntries(variable_definitions, i, k, close) ==
    IF i > Len(variable_definitions) THEN k = close
    ELSE LET v == variable_definitions[i]
             after == k + 3 + TypeTokens(v.variable_type)
             next == IF v.default_value = None THEN after
                     ELSE after + 1 + ValueTokens(v.default_value)
         IN /\ k < close
            /\ v.node = "VariableDefinition"
            /\ IsPunctuator(Tok(k), "DollarSign")
            /\ v.position.start = Tok(k).position.start
            /\ Tok(k + 1).kind = "Name"
            /\ v.variable.name.value = Tok(k + 1).value
            /\ IsPunctuator(Tok(k + 2), "Colon")
            /\ TypeText(v.variable_type) = TokensText(k + 3, after)
            /\ IF IsPunctuator(Tok(after), "EqualSign")
               THEN DefaultOf(v.default_value, after + 1)
               ELSE v.default_value = None
            /\ VariableEntries(variable_definitions, i + 1, next, close)

\* parse_variable_definitions has returned the list of a `(`
VariableDefinitionsReturned ==
    /\ Returned("parse_variable_definitions") /\ ret.ok
    /\ IsPunctuator(Tok(ret.entry), "LeftParenthesis")

\* parse_variable_definition is at its first token
AtVariableDefinition ==
    /\ Running_fn("parse_variable_definition") /\ Top.pc = "start"
    /\ InRange(ptr)

\* parse_variable_definition returns the Err with the message
VariableDefinitionErr(message) ==
    /\ Returned("parse_variable_definition")' /\ ~ret'.ok
    /\ ret'.diagnostic.message = <<message>>

\* the Document of the source TwoVariables
TwoVariablesParsed ==
    (pc = "done" /\ source = TwoVariables)
    => /\ result.kind = "Ok"
       /\ Len(result.document.definitions) = 1
       /\ LET variable_definitions == OnlyDefinition.variable_definitions
              selections == OnlyDefinition.selection_set.selections
          IN /\ Len(variable_definitions) = 2
             /\ variable_definitions[1].variable.name.value = <<"i", "d">>
             /\ TypeShape(variable_definitions[1].variable_type) =
                   [node |-> "NonNullType", wrapped_type |->
                    [node |-> "NamedType", name |-> <<"I", "D">>]]
             /\ variable_definitions[2].variable.name.value = <<"n", "a", "m", "e">>
             /\ TypeShape(variable_definitions[2].variable_type) =
                   [node |-> "NamedType", name |-> <<"S", "t", "r", "i", "n", "g">>]
             /\ \A i \in 1..2 : variable_definitions[i].default_value = None
             /\ Len(selections) = 1
             /\ selections[1].node = "Field"
             /\ selections[1].name.value = <<"t", "e", "s", "t">>
             /\ Len(selections[1].arguments) = 2
             /\ \A i \in 1..2 :
                   /\ selections[1].arguments[i].name.value =
                         variable_definitions[i].variable.name.value
                   /\ selections[1].arguments[i].value.node = "Variable"
                   /\ selections[1].arguments[i].value.name.value =
                         variable_definitions[i].variable.name.value

----------------------------------------------------------------------------
(* Enum values.                                                            *)

\* the cursors of the value names of an enum between the cursors k and close:
\* the Names outside the parentheses of arguments that no `@` precedes
RECURSIVE EnumValueCursors(_, _, _)
EnumValueCursors(k, close, depth) ==
    IF k >= close THEN <<>>
    ELSE LET token == Tok(k)
             rest(d) == EnumValueCursors(k + 1, close, d)
         IN IF IsPunctuator(token, "LeftParenthesis") THEN rest(depth + 1)
            ELSE IF IsPunctuator(token, "RightParenthesis") THEN rest(depth - 1)
            ELSE IF /\ token.kind = "Name" /\ depth = 0
                    /\ ~IsPunctuator(Tok(k - 1), "AtSign")
            THEN <<k>> \o rest(depth)
            ELSE rest(depth)

\* the names that follow the `@` tokens from the cursor k up to the cursor to
RECURSIVE DirectiveNames(_, _)
DirectiveNames(k, to) ==
    IF k >= to THEN <<>>
    ELSE IF IsPunctuator(Tok(k), "AtSign")
    THEN <<Tok(k + 1).value>> \o DirectiveNames(k + 1, to)
    ELSE DirectiveNames(k + 1, to)

\* the EnumValueDefinition is the value whose name is at the cursor k and
\* whose directives end before the cursor to
IsEnumValueAt(v, k, to) ==
    /\ v.node = "EnumValueDefinition"
    /\ v.name.value = Tok(k).value
    /\ IF Tok(k - 1).kind = "StringValue"
       THEN v.description # None /\ v.description.value = Tok(k - 1).value
       ELSE v.description = None
    /\ [i \in 1..Len(v.directives) |-> v.directives[i].name.value] =
          DirectiveNames(k + 1, to)

\* parse_enum_values has returned the values of the braces it consumed
EnumValuesReturned == Returned("parse_enum_values") /\ ret.ok

\* the values parse_enum_values has returned are the values between the
\* braces, in source order
EnumValuesInOrder ==
    LET close == ptr - 1
        cursors == EnumValueCursors(ret.entry + 1, close, 0)
    IN /\ IsPunctuator(Tok(ret.entry), "LeftBrace")
       /\ IsPunctuator(Tok(close), "RightBrace")
       /\ Len(ret.value) >= 1
       /\ Len(ret.value) = Len(cursors)
       /\ \A i \in 1..Len(cursors) :
             IsEnumValueAt(ret.value[i], cursors[i],
                           IF i < Len(cursors) THEN cursors[i + 1] ELSE close)

\* the Documents of the sources RoleEnum and EmptyEnum
EnumSourcesParsed ==
    /\ (pc = "done" /\ source = RoleEnum)
       => /\ result.kind = "Ok"
          /\ Len(result.document.definitions) = 1
          /\ OnlyDefinition.node = "EnumTypeDefinition"
          /\ OnlyDefinition.name.value = <<"R", "o", "l", "e">>
          /\ [i \in 1..Len(OnlyDefinition.values) |->
                 OnlyDefinition.values[i].name.value] =
             << <<"A", "D", "M", "I", "N">>, <<"M", "E", "M", "B", "E", "R">>,
                <<"G", "U", "E", "S", "T">> >>
    /\ (pc = "done" /\ source = EmptyEnum) => result.kind = "Err"

\* C23: the values of an EnumTypeDefinition are the k >= 1 values between
\* the braces in source order, each with its description when a string
\* precedes its name and with the directives that follow it; an enum with no
\* value between the braces yields an Err.
C23_EnumValues ==
    [][/\ EnumValuesReturned' => EnumValuesInOrder'
       /\ (Running_fn("parse_enum_values") /\ Top.pc = "start" /\ InRange(ptr + 1)
              /\ IsPunctuator(Tok(ptr), "LeftBrace")
              /\ IsPunctuator(Tok(ptr + 1), "RightBrace"))
          => (stack'[Len(stack')].fn = "parse_enum_value_definition"
              /\ ptr' = ptr + 1)
       /\ (Running_fn("parse_enum_value_definition") /\ Top.pc = "start"
              /\ IsPunctuator(Tok(ptr), "RightBrace"))
          => (Returned("parse_enum_value_definition")' /\ ~ret'.ok)
       /\ EnumSourcesParsed'
      ]_vars

\* parse_enum_values has returned two values, the first with two directives
\* and the second with a description
C23_DescribedValueAfterDirectives ==
    /\ EnumValuesReturned
    /\ Len(ret.value) = 2
    /\ Len(ret.value[1].directives) = 2
    /\ ret.value[1].description = None
    /\ ret.value[2].description # None
    /\ ret.value[2].directives = <<>>

----------------------------------------------------------------------------
(* Printing and parsing again.                                             *)

\* the fields of a node that are no nodes and no positions
Label(n) ==
    CASE n.node \in {"Name", "IntValue", "FloatValue", "StringValue",
                     "BooleanValue", "EnumValue"} -> <<n.value>>
      [] n.node = "OperationDefinition" -> <<n.operation, n.anonymous>>
      [] OTHER -> <<>>

\* the two nodes are equal in all fields except positions
RECURSIVE SameShape(_, _)
SameShape(a, b) ==
    /\ a.node = b.node
    /\ Label(a) = Label(b)
    /\ Len(Children(a)) = Len(Children(b))
    /\ \A i \in 1..Len(Children(a)) : SameShape(Children(a)[i], Children(b)[i])

\* C24: the parse of the text that the pretty-printer prints for a Document
\* succeeds and yields a Document equal to the printed one in all fields
\* except positions.
C24_PrintedTextParsesToSameDocument ==
    (pc = "done" /\ printed # None)
    => /\ result.kind = "Ok"
       /\ SameShape(result.document, printed)

----------------------------------------------------------------------------
(* Lines and characters.                                                   *)

\* the line terminators among the first p characters of the source
LineTerminatorsUpTo(p) == {i \in 1..p : source[i] \in {"\n", "\r"}}

\* the characters consumed since the most recent line terminator among the
\* first p characters, or since the start when there is none
CharactersSinceLineTerminator(p) ==
    IF LineTerminatorsUpTo(p) = {} THEN p
    ELSE p - (CHOOSE i \in LineTerminatorsUpTo(p) :
                 \A j \in LineTerminatorsUpTo(p) : j <= i)

\* C25: after every step of the lexer, line is the number of `\n` and `\r`
\* characters consumed so far, a `\r\n` pair counting twice, and character is
\* the number of characters consumed since the most recent of them, or since
\* the start when there is none.
C25_LineAndCharacter ==
    /\ lexer.ptr <= Len(source)
    /\ lexer.line = Cardinality(LineTerminatorsUpTo(lexer.ptr))
    /\ lexer.character = CharactersSinceLineTerminator(lexer.ptr)

\* the lexer has consumed a `\r\n` pair and a character after it, on the
\* second of four lines
C25_AfterCarriageReturnNewLine ==
    /\ pc = "lex"
    /\ lexer.line = 2
    /\ lexer.character = 1
    /\ lexer.ptr > 3
    /\ source[lexer.ptr - 2] = "\r"
    /\ source[lexer.ptr - 1] = "\n"
    /\ Cardinality(LineTerminatorsUpTo(Len(source))) = 5

----------------------------------------------------------------------------
(* Arguments.                                                              *)

\* the cursor of the Name token of a Name node
NameCursor(name) ==
    CHOOSE k \in 0..(Len(tokens) - 1) :
        Tok(k).kind = "Name" /\ Tok(k).position = name.position

\* the Arguments from the i-th on are the pairs `Name: Value` of the tokens
\* from the cursor k up to close: each pair starts where the one before it
\* ends, which is ValueTokens after its colon unless its value is an enum
\* value
RECURSIVE ArgumentPairs(_, _, _, _)
ArgumentPairs(arguments, i, k, close) ==
    IF i > Len(arguments) THEN k = close
    ELSE LET argument == arguments[i]
             next == IF i < Len(arguments)
                     THEN NameCursor(arguments[i + 1].name) ELSE close
         IN /\ k < close
            /\ argument.node = "Argument"
            /\ Tok(k).kind = "Name"
            /\ argument.name.value = Tok(k).value
            /\ argument.name.position = Tok(k).position
            /\ IsPunctuator(Tok(k + 1), "Colon")
            /\ DefaultOf(argument.value, k + 2)
            /\ next >= k + 2
            /\ argument.value.node # "EnumValue"
               => next = k + 2 + ValueTokens(argument.value)
            /\ ArgumentPairs(arguments, i + 1, next, close)

\* parse_arguments is at its first token
AtArguments ==
    Running_fn("parse_arguments") /\ Top.pc = "start" /\ InRange(ptr)

\* parse_arguments returns its list
ArgumentsReturned == Returned("parse_arguments") /\ ret.ok

----------------------------------------------------------------------------
(* Names.                                                                  *)

\* the ASCII letters, the digits and `_`
NameCharacters == Lower \cup Upper \cup Digits \cup {"_"}

\* the lexer is at an ASCII letter or a `_`
AtNameStart ==
    pc = "lex" /\ Lexer_peek(lexer) \in Lower \cup Upper \cup {"_"}

\* the length of the longest run of NameCharacters from the 1-based index i
RECURSIVE NameRun(_)
NameRun(i) ==
    IF i > Len(source) THEN 0
    ELSE IF source[i] \notin NameCharacters THEN 0
    ELSE 1 + NameRun(i + 1)

\* the text is a name for helpers::is_valid_name
ValidName(text) ==
    /\ text # <<>>
    /\ text[1] \in Lower \cup Upper \cup {"_"}
    /\ \A i \in 2..Len(text) : text[i] \in NameCharacters

\* the Diagnostic is the `Invalid name` of parse_name_maybe
InvalidName(diagnostic) == diagnostic.message = <<"Invalid name">>

\* C27: the Name token lex emits at an ASCII letter or a `_` is the longest
\* run of ASCII letters, digits and `_` from there, copied as it is, and lex
\* emits a Name token nowhere else; every Name token satisfies
\* is_valid_name, and neither a parsing function nor parse returns the Err
\* `Invalid name`.
C27_NameTokens ==
    [][/\ AtNameStart
          => LET n == NameRun(lexer.ptr + 1)
             IN /\ OneTokenPushed("Name", lexer.ptr + n + 1)
                /\ tokens'[Len(tokens')].value =
                      SubSeq(source, lexer.ptr + 1, lexer.ptr + n)
       /\ (pc = "lex" /\ Len(tokens') = Len(tokens) + 1
              /\ tokens'[Len(tokens')].kind = "Name")
          => AtNameStart
       /\ \A i \in 1..Len(tokens') :
             tokens'[i].kind = "Name" => ValidName(tokens'[i].value)
       /\ (ret' # None /\ ~ret'.ok /\ ~ret'.abort) => ~InvalidName(ret'.diagnostic)
       /\ result'.kind = "Err" => ~InvalidName(result'.diagnostic)
      ]_vars

\* lex has emitted a Name token of letters, digits and `_` that starts with
\* `_`, and after it one that is a run of two `_`
C27_UnderscoreNames ==
    /\ Len(tokens) >= 4
    /\ tokens[1].kind = "Name"
    /\ tokens[1].value = <<"_", "a", "1", "_", "B", "2">>
    /\ tokens[2].kind = "IntValue"
    /\ tokens[3].kind = "Name"
    /\ tokens[3].value = <<"z">>
    /\ tokens[4].kind = "Name"
    /\ tokens[4].value = <<"_", "_">>

----------------------------------------------------------------------------
(* The token cursor.                                                       *)

\* the index of the EOF token that ends the token list lex has returned
EofIndex == Len(tokens) - 1

\* the parser is at the EOF token where a selection or a `}` is expected
AtEofInSelectionSet == AtSelection /\ Tok(ptr).kind = "EOF"

\* the Diagnostic is the `Unexpected EOF` of peek
UnexpectedEOF(diagnostic) == diagnostic.message = <<"Unexpected EOF">>

\* C28: while parse runs on the tokens of lex, the cursor never decreases,
\* never moves over the EOF token and so never passes the index of the last
\* token; peek never returns `Unexpected EOF` and the parse never falls into
\* the fallback of get_current_position; the EOF token met where a selection
\* set that is not closed expects a selection yields the Err
\* `Expected Selection`.
C28_CursorUpToEof ==
    [][/\ pc' = "parse"
          => /\ tokens'[Len(tokens')].kind = "EOF"
             /\ \A i \in 1..EofIndex' : tokens'[i].kind # "EOF"
             /\ ptr' >= 0 /\ ptr' <= EofIndex'
       /\ pc = "parse"
          => /\ ptr' >= ptr
             /\ ptr' <= EofIndex
             /\ Tok(ptr).kind = "EOF" => ptr' = ptr
       /\ (ret' # None /\ ~ret'.ok) => (~ret'.abort /\ ~UnexpectedEOF(ret'.diagnostic))
       /\ result'.kind # "Abort"
       /\ result'.kind = "Err" => ~UnexpectedEOF(result'.diagnostic)
       /\ AtEofInSelectionSet => SelectionErr("Expected Selection")
      ]_vars

\* parse_selection has returned the Err `Expected Selection` at the EOF token
\* of a selection set inside a selection set, neither of them closed
C28_EofInNestedSelectionSet ==
    /\ Returned("parse_selection") /\ ~ret.ok
    /\ ret.diagnostic.message = <<"Expected Selection">>
    /\ ptr = EofIndex
    /\ Tok(ptr).kind = "EOF"
    /\ ptr = 3
    /\ IsPunctuator(Tok(2), "LeftBrace")

----------------------------------------------------------------------------
(* Inline fragments.                                                       *)

\* the InlineFragment has a type condition
HasTypeCondition(n) ==
    n.node = "InlineFragment"
    => /\ n.type_condition # None
       /\ n.type_condition.node = "NamedType"

\* the inline fragments of the Document parse has returned
InlineFragments ==
    {i \in 1..Len(DocumentNodes) : DocumentNodes[i].node = "InlineFragment"}

\* C29: every InlineFragment parse_inline_fragment returns, and so every
\* InlineFragment of a Document parse returns, has a type condition:
\* parse_inline_fragment starts only at the Name on, and `...` before a `{`
\* or a `@` yields an Err.
C29_InlineFragmentHasTypeCondition ==
    /\ (Returned("parse_inline_fragment") /\ ret.ok)
       => HasTypeCondition(ret.value)
    /\ \A i \in InlineFragments : HasTypeCondition(DocumentNodes[i])
    /\ (Running_fn("parse_inline_fragment") /\ Top.pc = "start")
       => (Tok(ptr).kind = "Name" /\ Tok(ptr).value = <<"o", "n">>)
    /\ (Returned("parse_selection") /\ IsPunctuator(Tok(ret.entry), "Ellipsis")
           /\ (IsPunctuator(Tok(ret.entry + 1), "LeftBrace")
                 \/ IsPunctuator(Tok(ret.entry + 1), "AtSign")))
       => ~ret.ok

\* parse has returned a Document with an inline fragment in the selection
\* set of an inline fragment
C29_NestedInlineFragments ==
    /\ pc = "done" /\ result.kind = "Ok"
    /\ Cardinality(InlineFragments) = 2
    /\ \A i \in InlineFragments : DocumentNodes[i].type_condition # None

----------------------------------------------------------------------------
(* Termination of lex.                                                     *)

\* the iteration of the main loop consumes at least one character and goes on
LexAdvances ==
    /\ lexer.ptr < Len(source)
    /\ lexer'.ptr > lexer.ptr
    /\ lexer'.ptr <= Len(source)
    /\ pc' = "lex" /\ lexed' = Running
    /\ Len(tokens') <= Len(tokens) + 1
    /\ Len(tokens') <= lexer'.ptr

\* the loop ends at the end of the source: the EOF token is appended
LexEnds ==
    /\ lexer.ptr = Len(source)
    /\ lexer' = lexer
    /\ pc' = "lexed" /\ lexed'.kind = "Ok"
    /\ Len(tokens') = Len(tokens) + 1
    /\ tokens'[Len(tokens')].kind = "EOF"
    /\ Len(tokens') <= Len(source) + 1

\* C30: lex terminates on every source: every iteration of the main loop
\* moves the scan pointer forward by at least one character or returns an
\* Err, the pointer never passes the end of the source, so that after at
\* most len(source) iterations the EOF token is appended and lex returns.
C30_LexTerminates ==
    /\ [][pc = "lex" => (LexAdvances \/ LexReturnsErr \/ LexEnds)]_vars
    /\ (pc = "lex") ~> (pc = "lexed")

\* lex has returned the tokens of a source of four lines after it has
\* skipped a comment
C30_LexedAfterComment ==
    /\ pc = "lexed" /\ lexed.kind = "Ok"
    /\ lexer.ptr = Len(source)
    /\ lexer.line = 5
    /\ Len(tokens) = 5
    /\ \E i \in 1..Len(source) : source[i] = "#"

====
